---- MODULE Spec2Model ----
(***************************************************************************)
(* One SPOP agent connection of rust-haproxy: the task `process` that      *)
(* races the connection's cancellation token against `Connection::serve`,  *)
(* the length-prefixed framer, the handshake, the per-state frame handlers *)
(* and the fragment reassembly table.                                      *)
(*                                                                         *)
(* The connection state is the `State` value: at the head of the loop it   *)
(* lives in the field `self.state`; during an iteration `serve` moves it   *)
(* into the local `state` (variable cur) and leaves the placeholder        *)
(* `State::Disconnecting` in the field.                                    *)
(*                                                                         *)
(* Socket writes may stay pending (the flush of the BufStream) but do not  *)
(* fail; reads may fail with an I/O error (peer closed).                   *)
(***************************************************************************)
EXTENDS Integers, Sequences, FiniteSets, TLC

\* ------------------------------------------------------------------ bounds
MaxFrames == 4          \* frames the peer sends on the connection
MaxStreamId == 1        \* stream ids 0..MaxStreamId
AgentMaxFrameSize == 2  \* the runtime's configured max_frame_size; declared
                        \* frame lengths lie below, at and above it
MaxVersions == 2        \* versions in a supported-versions list (handshake)
MaxCaps == 2            \* capabilities in a capability list (handshake)
VarintDense == 300      \* every number 0..VarintDense is given to varint::put
MaxConns == 3           \* connections that arrive at the listening socket
MaxContexts == 3        \* contexts attached to one error, one inside the other
MaxCode == 14           \* status codes 0..MaxCode + 1 in a disconnect frame

\* ------------------------------------------------------------- small tools
Min(a, b) == IF a <= b THEN a ELSE b

\* the element of a singleton.  Only({ e : x \in { v } }) is e with x bound
\* to the value of v: the decoders use it so that a buffer handed down a
\* chain of calls is computed once
Only(S) == CHOOSE x \in S : TRUE

ToSet(s) == { s[i] : i \in 1..Len(s) }

None == <<>>

Some(x) == <<x>>

unwrap_or_default(opt) == IF opt = None THEN FALSE ELSE opt[1]

\* ------------------------------------------------------------ status codes
Statuses ==
    { "Normal", "Io", "Timeout", "TooBig", "Invalid", "NoVersion",
      "NoFrameSize", "NoCapabilities", "BadVersion", "BadFrameSize",
      "FragmentNotSupported", "InterlacedFrames", "FrameIdNotFound",
      "ResourceAllocErr", "Unknown" }

StatusCode(s) ==
    CASE s = "Normal" -> 0
      [] s = "Io" -> 1
      [] s = "Timeout" -> 2
      [] s = "TooBig" -> 3
      [] s = "Invalid" -> 4
      [] s = "NoVersion" -> 5
      [] s = "NoFrameSize" -> 6
      [] s = "NoCapabilities" -> 7
      [] s = "BadVersion" -> 8
      [] s = "BadFrameSize" -> 9
      [] s = "FragmentNotSupported" -> 10
      [] s = "InterlacedFrames" -> 11
      [] s = "FrameIdNotFound" -> 12
      [] s = "ResourceAllocErr" -> 13
      [] s = "Unknown" -> 99

\* The display text of a status (thiserror's #[error] strings).
StatusText(s) ==
    CASE s = "Normal" -> "normal"
      [] s = "Io" -> "I/O error"
      [] s = "Timeout" -> "a timeout occurred"
      [] s = "TooBig" -> "frame is too big"
      [] s = "Invalid" -> "invalid frame received"
      [] s = "NoVersion" -> "version value not found"
      [] s = "NoFrameSize" -> "max-frame-size value not found"
      [] s = "NoCapabilities" -> "capabilities value not found"
      [] s = "BadVersion" -> "unsupported version"
      [] s = "BadFrameSize" -> "max-frame-size too big or too small"
      [] s = "FragmentNotSupported" -> "fragmentation not supported"
      [] s = "InterlacedFrames" -> "invalid interlaced frames"
      [] s = "FrameIdNotFound" -> "frame-id not found"
      [] s = "ResourceAllocErr" -> "resource allocation error"
      [] s = "Unknown" -> "an unknown error occurred"

\* ------------------------------------------------------------------ errors
\* crate::error::Error. The source of a Context is a boxed `dyn StdError`:
\* what downcast_ref finds in the box is a crate Error ("Error"), a spop
\* status ("Status"), or neither ("Other", known by its display text).
ErrStatus(s) == [tag |-> "Status", status |-> s]

BoxError(err) == [is |-> "Error", err |-> err]

BoxStatus(s) == [is |-> "Status", status |-> s]

BoxOther(text) == [is |-> "Other", text |-> text]

\* Result<_, E>::context(reason): Error::Context { source, context }
context(source, reason) ==
    [tag |-> "Context", source |-> source, context |-> reason]

\* Result<_, spop::Error>::context(reason)
ContextOfStatus(s, reason) == context(BoxStatus(s), reason)

\* Result<_, E>::context(reason) for a foreign error E
ContextOfOther(reason) == context(BoxOther("service unavailable"), reason)

RECURSIVE Error_status(_)
\* what Error::status gives when it does not look into a nested Error
Error_status_no_nesting(err) ==
    CASE err.tag = "Status" -> Some(err.status)
      [] err.tag = "Context" ->
           IF err.source.is = "Status" THEN Some(err.source.status) ELSE None
      [] OTHER -> None

\* Error::status
Error_status(err) ==
    CASE err.tag = "Status" -> Some(err.status)
      [] err.tag = "Context" ->
           IF err.source.is = "Error" THEN Error_status(err.source.err)
           ELSE IF err.source.is = "Status" THEN Some(err.source.status)
           ELSE None
      [] OTHER -> None

\* Display of an Error (the #[error] attributes): "closed", the source's
\* own text for the transparent variants, "{context}, {source}"
RECURSIVE to_string(_)
to_string(err) ==
    CASE err.tag = "Closed" -> "closed"
      [] err.tag = "Status" -> StatusText(err.status)
      [] err.tag = "Context" ->
           err.context \o ", " \o
               (CASE err.source.is = "Error" -> to_string(err.source.err)
                  [] err.source.is = "Status" -> StatusText(err.source.status)
                  [] OTHER -> err.source.text)
      [] OTHER -> err.text

\* Disconnect::new(status, message)
Disconnect_new(status, message) ==
    [status_code |-> StatusCode(status), message |-> message]

\* impl From<Error> for Disconnect
DisconnectFrom(err) ==
    CASE err.tag = "Status" -> Disconnect_new(err.status, StatusText(err.status))
      [] err.tag = "Context" ->
           IF err.source.is = "Error" /\ Error_status(err.source.err) # None
           THEN Disconnect_new(Error_status(err.source.err)[1], err.context)
           ELSE IF err.source.is = "Status"
           THEN Disconnect_new(err.source.status, err.context)
           ELSE Disconnect_new("Unknown", to_string(err))
      [] OTHER -> Disconnect_new("Unknown", to_string(err))

\* Frame::AgentDisconnect(disconnect)
AgentDisconnect(d) ==
    [ty |-> "AgentDisconnect", status_code |-> d.status_code, message |-> d.message]

\* Frame::agent_disconnect(status, msg)
agent_disconnect(status, msg) ==
    AgentDisconnect([status_code |-> StatusCode(status), message |-> msg])

\* Frame::ack(stream_id, frame_id, actions)
ack(stream_id, frame_id, actions) ==
    [ty |-> "AgentAck", fragmented |-> FALSE, aborted |-> FALSE,
     stream_id |-> stream_id, frame_id |-> frame_id, actions |-> actions]

\* Ack::metadata: the flags and ids an AgentAck is serialized with
Ack_metadata(a) ==
    [flags |-> (IF a.fragmented THEN {} ELSE {"FIN"})
               \cup (IF a.aborted THEN {"ABORT"} ELSE {}),
     stream_id |-> a.stream_id, frame_id |-> a.frame_id]

\* ---------------------------------------------------------------- versions
\* Version { major, minor } is the pair <<major, minor>>; derive(Ord) orders
\* it lexicographically.
V1_0 == <<1, 0>>

V2_0 == <<2, 0>>

V2_1 == <<2, 1>>

VersionLe(a, b) == a[1] < b[1] \/ (a[1] = b[1] /\ a[2] <= b[2])

RECURSIVE InsertSorted(_, _)
InsertSorted(v, s) ==
    IF s = <<>> THEN <<v>>
    ELSE IF VersionLe(v, Head(s)) THEN <<v>> \o s
         ELSE <<Head(s)>> \o InsertSorted(v, Tail(s))

\* Vec<Version>::sort
RECURSIVE SortVersions(_)
SortVersions(s) ==
    IF s = <<>> THEN <<>> ELSE InsertSorted(Head(s), SortVersions(Tail(s)))

\* the same search without .rev(): the lowest common version
RECURSIVE FindFirst(_, _)
FindFirst(s, supported) ==
    IF s = <<>> THEN None
    ELSE IF Head(s) \in ToSet(supported) THEN Some(Head(s))
         ELSE FindFirst(Tail(s), supported)

\* .into_iter().rev().find(|version| supported.iter().rev().any(|v| v == version))
RECURSIVE FindLast(_, _)
FindLast(s, supported) ==
    IF s = <<>> THEN None
    ELSE IF s[Len(s)] \in ToSet(supported) THEN Some(s[Len(s)])
         ELSE FindLast(SubSeq(s, 1, Len(s) - 1), supported)

\* ------------------------------------------------------------- negotiation
Capabilities == { "Fragmentation", "Pipelining", "Async" }

\* negotiate answering with the agent's own max_frame_size
negotiate_own_size(supported_versions, max_frame_size, capabilities, hello) ==
    LET version == FindLast(SortVersions(hello.supported_versions),
                            SortVersions(supported_versions))
    IN  IF version = None
        THEN [ok |-> FALSE, err |-> ErrStatus("NoVersion")]
        ELSE [ok |-> TRUE,
              value |-> [version |-> version[1],
                         max_frame_size |-> max_frame_size,
                         capabilities |-> ToSet(hello.capabilities) \cap ToSet(capabilities)]]

\* negotiate answering with the client's capabilities as they came
negotiate_client_caps(supported_versions, max_frame_size, capabilities, hello) ==
    LET version == FindLast(SortVersions(hello.supported_versions),
                            SortVersions(supported_versions))
    IN  IF version = None
        THEN [ok |-> FALSE, err |-> ErrStatus("NoVersion")]
        ELSE [ok |-> TRUE,
              value |-> [version |-> version[1],
                         max_frame_size |-> Min(hello.max_frame_size, max_frame_size),
                         capabilities |-> ToSet(hello.capabilities)]]

\* state::handshake::negotiate.  The capability Vec collected from the
\* HashSet intersection has no duplicates and no defined order: a set.
negotiate(supported_versions, max_frame_size, capabilities, hello) ==
    LET version == FindLast(SortVersions(hello.supported_versions),
                            SortVersions(supported_versions))
    IN  IF version = None
        THEN [ok |-> FALSE, err |-> ErrStatus("NoVersion")]
        ELSE [ok |-> TRUE,
              value |-> [version |-> version[1],
                         max_frame_size |-> Min(hello.max_frame_size, max_frame_size),
                         capabilities |-> ToSet(hello.capabilities) \cap ToSet(capabilities)]]

\* Negotiated::agent_hello, wrapped into Frame::AgentHello
agent_hello(handshaked) ==
    [ty |-> "AgentHello", version |-> handshaked.version,
     max_frame_size |-> handshaked.max_frame_size,
     capabilities |-> handshaked.capabilities]

\* Negotiated::supports_fragmentation
supports_fragmentation(handshaked) == "Fragmentation" \in handshaked.capabilities

\* ------------------------------------------------------------ frame decode
\* A frame on the wire: the declared length, the type byte, the flags and
\* the two ids of the metadata, and the payload.  ty = "Eof" stands for a
\* stream that ends before the length prefix, ty = "Truncated" for a body
\* shorter than type + metadata, ty = "Unknown" for an undefined type byte.
\* Metadata::fragmented
fragmented(flags) == ~("FIN" \in flags)

\* KVList::max_frame_size on a present key: `n as u32` keeps the low 32
\* bits of the u64; the value is hi * 2^32 + lo
KVList_max_frame_size(n) == n.lo

\* an unsigned value that fits 32 bits, as sent on the wire
Uint(n) == [hi |-> 0, lo |-> n]

\* frame::decode::haproxy_hello: each required key may be absent
haproxy_hello(body) ==
    IF body.supported_versions = None THEN [ok |-> FALSE, err |-> "NoVersion"]
    ELSE IF body.max_frame_size = None THEN [ok |-> FALSE, err |-> "NoFrameSize"]
    ELSE IF body.capabilities = None THEN [ok |-> FALSE, err |-> "NoCapabilities"]
    ELSE [ok |-> TRUE,
          frame |-> [ty |-> "HaproxyHello",
                     supported_versions |-> body.supported_versions[1],
                     max_frame_size |-> KVList_max_frame_size(body.max_frame_size[1]),
                     capabilities |-> body.capabilities[1],
                     healthcheck |-> body.healthcheck]]

\* haproxy_notify keeping the ABORT bit in the notify it returns
haproxy_notify_keeps_abort(wf) ==
    [ok |-> TRUE,
     frame |-> [ty |-> "HaproxyNotify", fragmented |-> fragmented(wf.flags),
                aborted |-> "ABORT" \in wf.flags,
                stream_id |-> wf.stream_id, frame_id |-> wf.frame_id,
                messages |-> wf.body]]

\* frame::decode::haproxy_notify
haproxy_notify(wf) ==
    [ok |-> TRUE,
     frame |-> [ty |-> "HaproxyNotify", fragmented |-> fragmented(wf.flags),
                stream_id |-> wf.stream_id, frame_id |-> wf.frame_id,
                messages |-> wf.body]]

\* ---------------------------------------------------------- bytes of a frame
\* The type byte of a frame (frame::Type as u8)
TypeByte(ty) ==
    CASE ty = "Unset" -> 0
      [] ty = "HaproxyHello" -> 1
      [] ty = "HaproxyDisconnect" -> 2
      [] ty = "HaproxyNotify" -> 3
      [] ty = "AgentHello" -> 101
      [] ty = "AgentDisconnect" -> 102
      [] ty = "AgentAck" -> 103

FrameTypes ==
    { "Unset", "HaproxyHello", "HaproxyDisconnect", "HaproxyNotify",
      "AgentHello", "AgentDisconnect", "AgentAck" }

\* frame_type: Type::try_from_primitive, "Unknown" for an undefined byte
TypeOf(b) ==
    IF \E ty \in FrameTypes : TypeByte(ty) = b
    THEN CHOOSE ty \in FrameTypes : TypeByte(ty) = b
    ELSE "Unknown"

\* A u32 is the sequence of its four bytes, most significant first.
\* Flags::bits
Flags_bits(flags) ==
    << 0, 0, 0, (IF "FIN" \in flags THEN 1 ELSE 0)
                + (IF "ABORT" \in flags THEN 2 ELSE 0) >>

\* Flags::from_bits_truncate: the defined bits 0x1 and 0x2 of the value
Flags_from_bits_truncate(v) ==
    (IF v[4] % 2 = 1 THEN {"FIN"} ELSE {})
    \cup (IF (v[4] \div 2) % 2 = 1 THEN {"ABORT"} ELSE {})

\* u32::to_be: the value whose native representation is the big-endian
\* representation of v; the bytes are swapped on a little-endian host
to_be(v, host) == IF host = "little" THEN << v[4], v[3], v[2], v[1] >> ELSE v

\* BufMut::put_u32: the four bytes written, big-endian
put_u32(v) == v

\* Buf::get_u32: the value of four bytes read big-endian
get_u32(bytes) == bytes

\* Metadata::default
Metadata_default == [flags |-> {"FIN"}, stream_id |-> 0, frame_id |-> 0]

\* Notify::metadata
Notify_metadata(n) ==
    [flags |-> IF n.fragmented THEN {} ELSE {"FIN"},
     stream_id |-> n.stream_id, frame_id |-> n.frame_id]

\* frame::encode::metadata on a host of the given endianness
encode_metadata(md, host) ==
    [flags |-> put_u32(to_be(Flags_bits(md.flags), host)),
     stream_id |-> md.stream_id, frame_id |-> md.frame_id]

\* frame::decode::metadata
decode_metadata(w) ==
    [flags |-> Flags_from_bits_truncate(get_u32(w.flags)),
     stream_id |-> w.stream_id, frame_id |-> w.frame_id]

\* frame::encode::frame: the type byte, the metadata and the payload; the
\* payload of a frame is carried as its items, not as bytes
encode_frame(f, host) ==
    [type |-> TypeByte(f.ty),
     md |-> encode_metadata(
                IF f.ty = "HaproxyNotify" THEN Notify_metadata(f)
                ELSE IF f.ty = "AgentAck" THEN Ack_metadata(f)
                ELSE Metadata_default, host),
     payload |->
        CASE f.ty = "HaproxyHello" ->
               [supported_versions |-> Some(f.supported_versions),
                max_frame_size |-> Some(Uint(f.max_frame_size)),
                capabilities |-> Some(f.capabilities),
                healthcheck |-> f.healthcheck]
          [] f.ty = "AgentHello" ->
               [version |-> f.version, max_frame_size |-> f.max_frame_size,
                capabilities |-> f.capabilities]
          [] f.ty \in { "HaproxyDisconnect", "AgentDisconnect" } ->
               [status_code |-> f.status_code, message |-> f.message]
          [] f.ty = "HaproxyNotify" -> f.messages
          [] f.ty = "AgentAck" -> f.actions
          [] OTHER -> << >>]

\* frame::decode::agent_ack
agent_ack(wf) ==
    [ok |-> TRUE,
     frame |-> [ty |-> "AgentAck", fragmented |-> fragmented(wf.flags),
                aborted |-> "ABORT" \in wf.flags,
                stream_id |-> wf.stream_id, frame_id |-> wf.frame_id,
                actions |-> wf.body]]

\* frame::decode::agent_hello and frame::decode::disconnect on a payload
\* that holds every key: its items become the fields of the frame
kv_frame(ty, body) == [ok |-> TRUE, frame |-> [ty |-> ty] @@ body]

\* frame::decode::frame
frame_decode(wf) ==
    IF wf.ty \in {"Truncated", "Unknown"} THEN [ok |-> FALSE, err |-> "Invalid"]
    ELSE IF wf.ty = "HaproxyHello" /\ wf.stream_id = 0 /\ wf.frame_id = 0
         THEN haproxy_hello(wf.body)
    ELSE IF wf.ty = "AgentHello" /\ wf.stream_id = 0 /\ wf.frame_id = 0
         THEN kv_frame("AgentHello", wf.body)
    ELSE IF wf.ty = "HaproxyNotify" /\ wf.frame_id # 0
         THEN haproxy_notify(wf)
    ELSE IF wf.ty = "AgentAck" /\ wf.frame_id # 0
         THEN agent_ack(wf)
    ELSE IF wf.ty = "HaproxyDisconnect" /\ wf.stream_id = 0 /\ wf.frame_id = 0
         THEN kv_frame("HaproxyDisconnect", wf.body)
    ELSE IF wf.ty = "AgentDisconnect" /\ wf.stream_id = 0 /\ wf.frame_id = 0
         THEN kv_frame("AgentDisconnect", wf.body)
    ELSE [ok |-> FALSE, err |-> "Invalid"]

\* frame::decode::frame applied to the bytes of a frame
decode_frame(w) ==
    LET md == decode_metadata(w.md)
    IN  frame_decode([len |-> 1, ty |-> TypeOf(w.type), flags |-> md.flags,
                      stream_id |-> md.stream_id, frame_id |-> md.frame_id,
                      body |-> w.payload])

\* ------------------------------------------------------------------ framer
\* Framer::read_frame with the framer's max_frame_size
Framer_read_frame(max_frame_size, wf) ==
    IF wf.ty = "Eof" THEN [ok |-> FALSE, err |-> "Io"]
    ELSE IF wf.len <= max_frame_size
         THEN LET r == frame_decode(wf)
              IN  IF r.ok THEN r ELSE [ok |-> FALSE, err |-> "Invalid"]
         ELSE [ok |-> FALSE, err |-> "BadFrameSize"]

\* -------------------------------------------------------- reassembly table
EmptyTable == <<>>

TableInsert(table, key, value) ==
    [k \in (DOMAIN table) \cup {key} |-> IF k = key THEN value ELSE table[k]]

TableRemove(table, key) == [k \in (DOMAIN table) \ {key} |-> table[k]]

\* Table::reassemble returning only the last frame's values on FIN
Table_reassemble_drop(table, frag, key, value) ==
    IF key \in DOMAIN table
    THEN IF frag
         THEN [table |-> TableInsert(table, key, table[key] \o value), out |-> None]
         ELSE [table |-> TableRemove(table, key), out |-> Some(value)]
    ELSE IF frag
         THEN [table |-> TableInsert(table, key, value), out |-> None]
         ELSE [table |-> table, out |-> Some(value)]

\* Table::reassemble reading the entry on FIN without removing it
Table_reassemble_keep(table, frag, key, value) ==
    IF key \in DOMAIN table
    THEN IF frag
         THEN [table |-> TableInsert(table, key, table[key] \o value), out |-> None]
         ELSE [table |-> table, out |-> Some(table[key] \o value)]
    ELSE IF frag
         THEN [table |-> TableInsert(table, key, value), out |-> None]
         ELSE [table |-> table, out |-> Some(value)]

\* Table::reassemble: the new table and the returned Option<Vec<T>>
Table_reassemble(table, frag, key, value) ==
    IF key \in DOMAIN table
    THEN IF frag
         THEN [table |-> TableInsert(table, key, table[key] \o value), out |-> None]
         ELSE [table |-> TableRemove(table, key), out |-> Some(table[key] \o value)]
    ELSE IF frag
         THEN [table |-> TableInsert(table, key, value), out |-> None]
         ELSE [table |-> table, out |-> Some(value)]

\* ------------------------------------------------------------ the handlers
\* What a handler has produced when it returns or reaches its first await:
\*   Ok    - Ok((next, reply))
\*   Err   - Err(err)
\*   Await - suspended on the service maker ("make") or the service ("call")
HOk(nx, reply) == [tag |-> "Ok", next |-> nx, reply |-> reply]

HErr(err) == [tag |-> "Err", err |-> err]

HAwait(on) == [tag |-> "Await", on |-> on]

\* Connecting::handshake that treats a healthcheck hello as a normal one
Connecting_handshake_no_healthcheck(runtime, hello) ==
    LET n == negotiate(runtime.supported_versions, runtime.max_frame_size,
                       runtime.capabilities, hello)
    IN  IF ~n.ok THEN [h |-> HErr(n.err), handshaked |-> None]
        ELSE [h |-> HAwait("make"), handshaked |-> Some(n.value)]

\* Connecting::handshake up to `service_maker.write().await.make().await`;
\* returns the handler outcome and the negotiated parameters
Connecting_handshake(runtime, hello) ==
    LET is_healthcheck == unwrap_or_default(hello.healthcheck)
        n == negotiate(runtime.supported_versions, runtime.max_frame_size,
                       runtime.capabilities, hello)
    IN  IF ~n.ok THEN [h |-> HErr(n.err), handshaked |-> None]
        ELSE IF is_healthcheck
             THEN [h |-> HOk("Disconnecting", Some(agent_hello(n.value))),
                   handshaked |-> Some(n.value)]
             ELSE [h |-> HAwait("make"), handshaked |-> Some(n.value)]

\* Connecting::handle_frame failing with Normal on an unexpected frame
Connecting_handle_frame_normal(runtime, frame) ==
    IF frame.ty = "HaproxyHello"
    THEN Connecting_handshake(runtime, frame)
    ELSE [h |-> HErr(ContextOfStatus("Normal", "expected HaproxyHello frame")),
          handshaked |-> None]

\* Connecting::handle_frame
Connecting_handle_frame(runtime, frame) ==
    IF frame.ty = "HaproxyHello"
    THEN Connecting_handshake(runtime, frame)
    ELSE [h |-> HErr(ContextOfStatus("Invalid", "expected HaproxyHello frame")),
          handshaked |-> None]

\* Connecting::handshake after the service maker has answered
Connecting_handshake_made(handshaked, made) ==
    IF made
    THEN HOk("Processing", Some(agent_hello(handshaked)))
    ELSE HErr(ContextOfOther("make service"))

\* Processing::handle_frame restarting the handshake on HaproxyDisconnect
Processing_handle_frame_reconnect(handshaked, table, frame) ==
    IF frame.ty = "HaproxyNotify"
    THEN LET r == IF supports_fragmentation(handshaked)
                  THEN Table_reassemble(table, frame.fragmented,
                                        <<frame.stream_id, frame.frame_id>>,
                                        frame.messages)
                  ELSE [table |-> table, out |-> Some(frame.messages)]
         IN  IF r.out # None
             THEN [h |-> HAwait("call"), table |-> r.table, msgs |-> r.out]
             ELSE [h |-> HOk("Processing", None), table |-> r.table, msgs |-> None]
    ELSE IF frame.ty = "HaproxyDisconnect"
         THEN [h |-> HOk("Connecting", None), table |-> table, msgs |-> None]
         ELSE [h |-> HErr(ContextOfStatus("Invalid", "unexpected frame")),
               table |-> table, msgs |-> None]

\* Processing::handle_frame without the HaproxyDisconnect arm
Processing_handle_frame_invalid(handshaked, table, frame) ==
    IF frame.ty = "HaproxyNotify"
    THEN LET r == IF supports_fragmentation(handshaked)
                  THEN Table_reassemble(table, frame.fragmented,
                                        <<frame.stream_id, frame.frame_id>>,
                                        frame.messages)
                  ELSE [table |-> table, out |-> Some(frame.messages)]
         IN  IF r.out # None
             THEN [h |-> HAwait("call"), table |-> r.table, msgs |-> r.out]
             ELSE [h |-> HOk("Processing", None), table |-> r.table, msgs |-> None]
    ELSE [h |-> HErr(ContextOfStatus("Invalid", "unexpected frame")),
          table |-> table, msgs |-> None]

\* Processing::handle_frame up to `timeout(.., service.call(msgs)).await`;
\* returns the handler outcome, the table and the messages for the service
Processing_handle_frame(handshaked, table, frame) ==
    IF frame.ty = "HaproxyNotify"
    THEN LET r == IF supports_fragmentation(handshaked)
                  THEN Table_reassemble(table, frame.fragmented,
                                        <<frame.stream_id, frame.frame_id>>,
                                        frame.messages)
                  ELSE [table |-> table, out |-> Some(frame.messages)]
         IN  IF r.out # None
             THEN [h |-> HAwait("call"), table |-> r.table, msgs |-> r.out]
             ELSE [h |-> HOk("Processing", None), table |-> r.table, msgs |-> None]
    ELSE IF frame.ty = "HaproxyDisconnect"
         THEN [h |-> HErr(ContextOfStatus("Normal", "peer closed connection")),
               table |-> table, msgs |-> None]
         ELSE [h |-> HErr(ContextOfStatus("Invalid", "unexpected frame")),
               table |-> table, msgs |-> None]

\* Processing::handle_frame without the timeout: the late answer is acked
Processing_called_unbounded(frame, res) ==
    IF res.tag = "Ok"
    THEN HOk("Processing", Some(ack(frame.stream_id, frame.frame_id, res.actions)))
    ELSE IF res.tag = "Err"
         THEN HErr(ContextOfStatus("Unknown", res.text))
         ELSE HOk("Processing", Some(ack(frame.stream_id, frame.frame_id, <<>>)))

\* Processing::handle_frame dropping the service error's text
Processing_called_generic(frame, res) ==
    IF res.tag = "Ok"
    THEN HOk("Processing", Some(ack(frame.stream_id, frame.frame_id, res.actions)))
    ELSE IF res.tag = "Err"
         THEN HErr(ErrStatus("Unknown"))
         ELSE HErr(ContextOfStatus("Timeout", "process messages"))

\* Processing::handle_frame after the timeout-wrapped service call answered
Processing_called(frame, res) ==
    IF res.tag = "Ok"
    THEN HOk("Processing", Some(ack(frame.stream_id, frame.frame_id, res.actions)))
    ELSE IF res.tag = "Err"
         THEN HErr(ContextOfStatus("Unknown", res.text))
         ELSE HErr(ContextOfStatus("Timeout", "process messages"))

\* ------------------------------------------------------------------- state
VARIABLES
    rt,           \* the shared Runtime: versions, capabilities, max_frame_size
    state,        \* Connection.state, the field
    cur,          \* serve's local `state` taken by mem::replace, or "none"
    next,         \* the `next` returned by handle_frame, not yet assigned
    pc,           \* where the connection task is suspended
    frame,        \* the notify whose service call is in flight
    handshaked,   \* Option<Negotiated> produced by the handshake
    reassembly,   \* Processing.reassembly, the table
    tok,          \* the connection's cancellation token is cancelled
    out,          \* frames in the BufStream's write buffer, not yet flushed
    wire,         \* frames flushed to the socket
    serve_res,    \* what serve() returned
    process_res,  \* what process() returned
    nread,        \* number of reads served by the peer
    notifies,     \* history: the notifies handled in Processing
    calls,        \* history: the service invocations
    last,         \* history: the last read: its number, declared length, the
                  \* state it met, the decoded type ("none": not decoded)
    results,      \* history: what each completed service call answered
    peer          \* the input fixed at the start: the hello the peer will
                  \* send (handshake) or the frame under conversion (codec)

vars == << rt, state, cur, next, pc, frame, handshaked, reassembly, tok, out,
           wire, serve_res, process_res, nread, notifies, calls, last, results,
           peer >>

NoResult == [tag |-> "none"]

OkResult == [tag |-> "Ok"]

ErrResult(e) == [tag |-> "Err", err |-> e]

NoFrame == [ty |-> "none"]

\* every frame handed to write_frame so far, in order
Written == wire \o out

\* ------------------------------------------------------------------ inputs
StreamIds == 0..MaxStreamId

\* 0 is the frame id the decoder rejects for a notify or an ack
FrameIds == { 0, 1 }

Lens == { 1, AgentMaxFrameSize, AgentMaxFrameSize + 1 }

Runtimes ==
    { [supported_versions |-> <<V2_0>>, max_frame_size |-> AgentMaxFrameSize,
       capabilities |-> c] :
      c \in { <<"Pipelining">>, <<"Fragmentation", "Pipelining", "Async">> } }

HelloBodies ==
    { [supported_versions |-> Some(v), max_frame_size |-> Some(Uint(m)),
       capabilities |-> Some(c), healthcheck |-> hc] :
      v \in { <<V2_0>>, <<V1_0>>, <<V2_0, V1_0>> },
      m \in Lens,
      c \in { <<>>, <<"Pipelining">>, <<"Pipelining", "Fragmentation">> },
      hc \in { None, Some(TRUE), Some(FALSE) } }
    \cup
    { [supported_versions |-> Some(<<V2_0>>), max_frame_size |-> None,
       capabilities |-> Some(<<>>), healthcheck |-> None] }

\* the frames the peer may send as the n-th frame of the connection; the
\* messages of a notify are tagged with n
PeerFrames(n) ==
    { [len |-> l, ty |-> "HaproxyHello", flags |-> {"FIN"}, stream_id |-> 0,
       frame_id |-> 0, body |-> b] : l \in Lens, b \in HelloBodies }
    \cup
    { [len |-> l, ty |-> "HaproxyNotify", flags |-> f, stream_id |-> sid,
       frame_id |-> fid, body |-> <<n>>] :
      l \in Lens, f \in SUBSET {"FIN", "ABORT"}, sid \in StreamIds, fid \in FrameIds }
    \cup
    { [len |-> l, ty |-> t, flags |-> {"FIN"}, stream_id |-> 0, frame_id |-> 0,
       body |-> <<>>] :
      l \in Lens,
      t \in { "HaproxyDisconnect", "AgentHello", "AgentDisconnect", "Unset",
              "Unknown", "Truncated", "Eof" } }
    \cup
    { [len |-> 1, ty |-> "AgentAck", flags |-> {"FIN"}, stream_id |-> 1,
       frame_id |-> 1, body |-> <<>>] }

ActionLists == { <<"set-var">> }

ServiceResults ==
    { [tag |-> "Ok", actions |-> a] : a \in ActionLists }
    \cup { [tag |-> "Err", text |-> t] : t \in { "service failed", "denied" } }
    \cup { [tag |-> "Timeout"] }

\* -------------------------------------------------------------------- Init
Init ==
    /\ rt \in Runtimes
    /\ state = "Connecting"
    /\ cur = "none"
    /\ next = "none"
    /\ pc = "start"
    /\ frame = NoFrame
    /\ handshaked = None
    /\ reassembly = EmptyTable
    /\ tok = FALSE
    /\ out = <<>>
    /\ wire = <<>>
    /\ serve_res = NoResult
    /\ process_res = NoResult
    /\ nread = 0
    /\ notifies = <<>>
    /\ calls = <<>>
    /\ last = [n |-> 0, len |-> 0, st |-> "none", ty |-> "none", hc |-> FALSE]
    /\ results = <<>>
    /\ peer = NoFrame

\* ----------------------------------------------------------------- actions
\* The head of serve's loop with the value nx in self.state:
\*   let state = mem::replace(&mut self.state, State::Disconnecting);
\*   if matches!(state, State::Disconnecting) { break; }   ... Ok(())
\* and then the task suspends in the select.
Iterate(nx) ==
    /\ state' = "Disconnecting"
    /\ next' = "none"
    /\ IF nx = "Disconnecting"
       THEN /\ cur' = "none"
            /\ pc' = "done"
            /\ serve_res' = OkResult
            /\ process_res' = OkResult
       ELSE /\ cur' = nx
            /\ pc' = "select"
            /\ UNCHANGED << serve_res, process_res >>

\* serve's match on the handler's result: the reply or the AgentDisconnect
\* goes into the write buffer and the task suspends in write_frame; without
\* a reply the next state is assigned and the loop goes round.
Complete(h) ==
    IF h.tag = "Ok"
    THEN IF h.reply # None
         THEN /\ out' = Append(out, h.reply[1])
              /\ next' = h.next
              /\ pc' = "write_reply"
              /\ UNCHANGED << state, cur, serve_res, process_res >>
         ELSE /\ out' = out
              /\ Iterate(h.next)
    ELSE /\ out' = Append(out, AgentDisconnect(DisconnectFrom(h.err)))
         /\ next' = "none"
         /\ pc' = "write_disconnect"
         /\ UNCHANGED << state, cur, serve_res, process_res >>

\* process() is polled for the first time and serve() enters its loop.
Start ==
    /\ pc = "start"
    /\ Iterate(state)
    /\ UNCHANGED << rt, frame, handshaked, reassembly, tok, out, wire, nread,
                    notifies, calls, last,
                    results, peer >>

\* read_frame fails: `frame?` returns the error from serve()
ReadFailed(e) ==
    /\ pc' = "done"
    /\ cur' = "none"
    /\ serve_res' = ErrResult(ErrStatus(e))
    /\ process_res' = ErrResult(ErrStatus(e))
    /\ UNCHANGED << state, next, out, frame, handshaked, reassembly, notifies,
                    calls >>

\* a frame arrives for a connection in Connecting
HandleConnecting(f) ==
    LET r == Connecting_handle_frame(rt, f)
    IN  /\ frame' = NoFrame
        /\ handshaked' = r.handshaked
        /\ IF r.h.tag = "Await"
           THEN /\ pc' = r.h.on
                /\ UNCHANGED << state, cur, next, out, serve_res, process_res >>
           ELSE Complete(r.h)
        /\ UNCHANGED << reassembly, notifies, calls >>

\* a frame arrives for a connection in Processing
HandleProcessing(f) ==
    LET r == Processing_handle_frame(handshaked[1], reassembly, f)
    IN  /\ frame' = IF r.h.tag = "Await" THEN f ELSE NoFrame
        /\ reassembly' = r.table
        /\ notifies' = IF f.ty = "HaproxyNotify"
                       THEN Append(notifies,
                                   [key |-> <<f.stream_id, f.frame_id>>,
                                    frag |-> f.fragmented, messages |-> f.messages])
                       ELSE notifies
        /\ IF r.h.tag = "Await"
           THEN /\ pc' = r.h.on
                /\ calls' = Append(calls, [key |-> <<f.stream_id, f.frame_id>>,
                                           msgs |-> r.msgs[1]])
                /\ UNCHANGED << state, cur, next, out, serve_res, process_res >>
           ELSE /\ calls' = calls
                /\ Complete(r.h)
        /\ UNCHANGED handshaked

\* serve: read_frame yields the wire frame wf and the handler runs up to
\* its first await
Receive(wf) ==
    LET r == Framer_read_frame(rt.max_frame_size, wf)
    IN  /\ last' = [n |-> nread + 1, len |-> wf.len, st |-> cur,
                    ty |-> IF r.ok THEN r.frame.ty ELSE "none",
                    hc |-> IF r.ok /\ r.frame.ty = "HaproxyHello"
                           THEN unwrap_or_default(r.frame.healthcheck)
                           ELSE FALSE]
        /\ IF ~r.ok THEN ReadFailed(r.err)
           ELSE IF cur = "Connecting" THEN HandleConnecting(r.frame)
           ELSE HandleProcessing(r.frame)
        /\ nread' = nread + 1
        /\ UNCHANGED << rt, tok, wire, results, peer >>

\* what the read would be if serve went on reading while a service call
\* or a write is pending
ReadFrame_pipelined ==
    /\ pc \in { "select", "call", "write_reply" }
    /\ cur # "none"
    /\ nread < MaxFrames
    /\ \E wf \in PeerFrames(nread + 1) : Receive(wf)

\* serve: the select's read_frame branch
ReadFrame ==
    /\ pc = "select"
    /\ nread < MaxFrames
    /\ \E wf \in PeerFrames(nread + 1) : Receive(wf)

\* the service maker answers: Connecting::handshake resumes
MakeDone ==
    /\ pc = "make"
    /\ \E made \in BOOLEAN : Complete(Connecting_handshake_made(handshaked[1], made))
    /\ UNCHANGED << rt, frame, handshaked, reassembly, tok, wire, nread,
                    notifies, calls, last,
                    results, peer >>

\* what the call would be with a service that never answers and no
\* timeout around it
CallDone_service_hangs ==
    /\ pc = "call"
    /\ FALSE
    /\ UNCHANGED vars

\* the service answers or max_process_time expires: Processing::handle_frame
\* resumes
CallDone ==
    /\ pc = "call"
    /\ \E res \in ServiceResults :
         /\ Complete(Processing_called(frame, res))
         /\ results' = Append(results, res)
    /\ frame' = NoFrame
    /\ UNCHANGED << rt, handshaked, reassembly, tok, wire, nread,
                    notifies, calls, last, peer >>

\* write_frame of the reply completes: self.state = next, and the loop head
WriteReplyDone ==
    /\ pc = "write_reply"
    /\ wire' = wire \o out
    /\ out' = <<>>
    /\ Iterate(next)
    /\ UNCHANGED << rt, frame, handshaked, reassembly, tok, nread, notifies,
                    calls, last,
                    results, peer >>

\* write_frame of the AgentDisconnect completes: self.tok.cancel(); break
WriteDisconnectDone ==
    /\ pc = "write_disconnect"
    /\ wire' = wire \o out
    /\ out' = <<>>
    /\ tok' = TRUE
    /\ pc' = "done"
    /\ cur' = "none"
    /\ serve_res' = OkResult
    /\ process_res' = OkResult
    /\ UNCHANGED << rt, state, next, frame, handshaked, reassembly, nread,
                    notifies, calls, last,
                    results, peer >>

\* serve: the select's `self.tok.cancelled()` branch: break
InnerCancel ==
    /\ pc = "select"
    /\ tok
    /\ pc' = "done"
    /\ cur' = "none"
    /\ serve_res' = OkResult
    /\ process_res' = OkResult
    /\ UNCHANGED << rt, state, next, frame, handshaked, reassembly, tok, out,
                    wire, nread, notifies, calls, last,
                    results, peer >>

\* the await points of serve(), where process's select may drop it
Suspended == { "start", "select", "make", "call", "write_reply", "write_disconnect" }

\* process: the select's `tok.cancelled()` branch: the serve future is
\* dropped and conn.disconnect(Normal, "shutting down") starts writing
OuterCancel ==
    /\ pc \in Suspended
    /\ tok
    /\ cur' = "none"
    /\ next' = "none"
    /\ state' = IF pc = "start" THEN state ELSE "Disconnecting"
    /\ out' = Append(out, agent_disconnect("Normal", "shutting down"))
    /\ pc' = "bye"
    /\ frame' = NoFrame
    /\ UNCHANGED << rt, handshaked, reassembly, tok, wire, serve_res,
                    process_res, nread, notifies, calls, last,
                    results, peer >>

\* conn.disconnect's write_frame completes and process() returns
ByeDone ==
    /\ pc = "bye"
    /\ wire' = wire \o out
    /\ out' = <<>>
    /\ pc' = "done"
    /\ process_res' = OkResult
    /\ UNCHANGED << rt, state, cur, next, frame, handshaked, reassembly, tok,
                    serve_res, nread, notifies, calls, last,
                    results, peer >>

\* the acceptor's token is cancelled, and with it the connection's child
Shutdown ==
    /\ ~tok
    /\ pc # "done"
    /\ tok' = TRUE
    /\ UNCHANGED << rt, state, cur, next, pc, frame, handshaked, reassembly,
                    out, wire, serve_res, process_res, nread, notifies, calls,
                    last,
                    results, peer >>

Next ==
    \/ Start
    \/ ReadFrame
    \/ MakeDone
    \/ CallDone
    \/ WriteReplyDone
    \/ WriteDisconnectDone
    \/ InnerCancel
    \/ OuterCancel
    \/ ByeDone
    \/ Shutdown

Spec == Init /\ [][Next]_vars

\* The tokio timer fires after max_process_time, so the timeout-wrapped
\* call always completes; socket writes are taken to complete; a task that
\* can go on is polled again.
SpecLive ==
    /\ Spec
    /\ WF_vars(CallDone)
    /\ WF_vars(WriteReplyDone)
    /\ WF_vars(WriteDisconnectDone)
    /\ WF_vars(ByeDone)


\* ------------------------------------------------ the handshake on its own
\* One connection whose peer sends a single HaproxyHello, fixed at the
\* start together with the agent's configuration, and is served without a
\* shutdown.
Versions == { V1_0, V2_0, V2_1 }

SeqsUpTo(S, n) == UNION { [1..k -> S] : k \in 0..n }

VersionLists == SeqsUpTo(Versions, MaxVersions)

CapLists == SeqsUpTo(Capabilities, MaxCaps)

\* max-frame-size values: those the main specification's lengths take, as
\* u32 and as a u64 beyond 32 bits
HsSizes == 1..(AgentMaxFrameSize + 1)

WireSizes == { [hi |-> h, lo |-> l] : h \in 0..1, l \in HsSizes }

HsRuntime(v, m, c) == [supported_versions |-> v, max_frame_size |-> m, capabilities |-> c]

HsBody(v, m, c, hc) ==
    [supported_versions |-> v, max_frame_size |-> m, capabilities |-> c,
     healthcheck |-> hc]

\* the agent's configuration and the hello's payload: the version lists,
\* the sizes, the capability lists and the presence of the required keys
\* are varied in turn
HsInputs ==
    { << HsRuntime(av, AgentMaxFrameSize, <<"Pipelining">>),
         HsBody(Some(cv), Some(Uint(1)), Some(<<"Pipelining">>), hc) >> :
      av \in VersionLists, cv \in VersionLists, hc \in { None, Some(TRUE) } }
    \cup
    { << HsRuntime(<<V2_0>>, am, <<"Pipelining">>),
         HsBody(Some(<<V2_0>>), Some(cm), Some(<<"Pipelining">>), hc) >> :
      am \in HsSizes, cm \in WireSizes, hc \in { None, Some(TRUE) } }
    \cup
    { << HsRuntime(<<V2_0>>, AgentMaxFrameSize, ac),
         HsBody(Some(<<V2_0>>), Some(Uint(1)), Some(cc), hc) >> :
      ac \in CapLists, cc \in CapLists, hc \in { None, Some(TRUE) } }
    \cup
    { << HsRuntime(<<V2_0>>, AgentMaxFrameSize, <<"Pipelining">>),
         HsBody(v, m, c, None) >> :
      v \in { None, Some(<<V2_0>>) }, m \in { None, Some(Uint(1)) },
      c \in { None, Some(<<"Pipelining">>) } }

HsFrame(body) ==
    [len |-> 1, ty |-> "HaproxyHello", flags |-> {"FIN"}, stream_id |-> 0,
     frame_id |-> 0, body |-> body]

HsInit ==
    /\ \E in \in HsInputs :
         /\ rt = in[1]
         /\ peer = HsFrame(in[2])
    /\ state = "Connecting"
    /\ cur = "none"
    /\ next = "none"
    /\ pc = "start"
    /\ frame = NoFrame
    /\ handshaked = None
    /\ reassembly = EmptyTable
    /\ tok = FALSE
    /\ out = <<>>
    /\ wire = <<>>
    /\ serve_res = NoResult
    /\ process_res = NoResult
    /\ nread = 0
    /\ notifies = <<>>
    /\ calls = <<>>
    /\ last = [n |-> 0, len |-> 0, st |-> "none", ty |-> "none", hc |-> FALSE]
    /\ results = <<>>

\* serve: read_frame yields the peer's hello
HsRead ==
    /\ pc = "select"
    /\ nread = 0
    /\ Receive(peer)

HsNext ==
    \/ Start
    \/ HsRead
    \/ MakeDone
    \/ WriteReplyDone
    \/ WriteDisconnectDone

SpecHandshake == HsInit /\ [][HsNext]_vars

\* ------------------------------------------------------- the frame codec
\* encode::frame and decode::frame run on their own: `peer` holds a Frame
\* value or the bytes of a received frame, the endianness of the host, the
\* bytes written and the result of decoding them; the connection is idle.
Hosts == { "little", "big" }

CodecIds == { id \in StreamIds \cup FrameIds : id # 0 }

\* The Frame values given to the encoder: all seven variants, every
\* combination of fragmented and aborted, ids other than zero
CodecFrames ==
    { [ty |-> "Unset"] }
    \cup { [ty |-> "HaproxyHello", supported_versions |-> << V2_0 >>,
            max_frame_size |-> m, capabilities |-> c, healthcheck |-> hc] :
           m \in HsSizes, c \in { << >>, << "Fragmentation" >> },
           hc \in { None, Some(TRUE) } }
    \cup { agent_hello([version |-> V2_0, max_frame_size |-> m,
                        capabilities |-> c]) :
           m \in HsSizes, c \in { {}, { "Fragmentation" } } }
    \cup { [ty |-> ty, status_code |-> StatusCode(st), message |-> StatusText(st)] :
           ty \in { "HaproxyDisconnect", "AgentDisconnect" },
           st \in { "Normal", "Invalid" } }
    \cup { [ty |-> "HaproxyNotify", fragmented |-> fr, stream_id |-> sid,
            frame_id |-> fid, messages |-> << "m" >>] :
           fr \in BOOLEAN, sid \in CodecIds, fid \in CodecIds }
    \cup { [ty |-> "AgentAck", fragmented |-> fr, aborted |-> ab,
            stream_id |-> sid, frame_id |-> fid, actions |-> << "a" >>] :
           fr \in BOOLEAN, ab \in BOOLEAN, sid \in CodecIds, fid \in CodecIds }

\* One frame of each type, whose payload decodes
CodecSamples ==
    { [ty |-> "Unset"],
      [ty |-> "HaproxyHello", supported_versions |-> << V2_0 >>,
       max_frame_size |-> AgentMaxFrameSize, capabilities |-> << >>,
       healthcheck |-> None],
      agent_hello([version |-> V2_0, max_frame_size |-> AgentMaxFrameSize,
                   capabilities |-> {}]),
      [ty |-> "HaproxyDisconnect", status_code |-> StatusCode("Normal"),
       message |-> StatusText("Normal")],
      [ty |-> "AgentDisconnect", status_code |-> StatusCode("Normal"),
       message |-> StatusText("Normal")],
      [ty |-> "HaproxyNotify", fragmented |-> FALSE, stream_id |-> 1,
       frame_id |-> 1, messages |-> << "m" >>],
      [ty |-> "AgentAck", fragmented |-> FALSE, aborted |-> FALSE,
       stream_id |-> 1, frame_id |-> 1, actions |-> << "a" >>] }

\* The bytes a peer may send: a frame of each type under every pair of ids
\* and every value of the two defined flag bits, big-endian
CodecWires ==
    { [type |-> TypeByte(f.ty),
       md |-> [flags |-> Flags_bits(fl), stream_id |-> sid, frame_id |-> fid],
       payload |-> encode_frame(f, "big").payload] :
      f \in CodecSamples, fl \in SUBSET { "FIN", "ABORT" },
      sid \in StreamIds, fid \in FrameIds }

NoBytes == << >>

CodecInit ==
    /\ peer \in { [f |-> f, host |-> h, bytes |-> NoBytes, back |-> None] :
                  f \in CodecFrames, h \in Hosts }
                \cup { [f |-> NoFrame, host |-> h, bytes |-> << w >>, back |-> None] :
                       w \in CodecWires, h \in Hosts }
    /\ rt \in Runtimes
    /\ state = "Connecting"
    /\ cur = "none"
    /\ next = "none"
    /\ pc = "start"
    /\ frame = NoFrame
    /\ handshaked = None
    /\ reassembly = EmptyTable
    /\ tok = FALSE
    /\ out = <<>>
    /\ wire = <<>>
    /\ serve_res = NoResult
    /\ process_res = NoResult
    /\ nread = 0
    /\ notifies = <<>>
    /\ calls = <<>>
    /\ last = [n |-> 0, len |-> 0, st |-> "none", ty |-> "none", hc |-> FALSE]
    /\ results = <<>>

\* BufMutExt::put_frame
Encode ==
    /\ peer.f # NoFrame
    /\ peer.bytes = NoBytes
    /\ peer' = [peer EXCEPT !.bytes = << encode_frame(peer.f, peer.host) >>]
    /\ UNCHANGED << rt, state, cur, next, pc, frame, handshaked, reassembly,
                    tok, out, wire, serve_res, process_res, nread, notifies,
                    calls, last, results >>

\* BufExt::get_frame
Decode ==
    /\ peer.bytes # NoBytes
    /\ peer.back = None
    /\ peer' = [peer EXCEPT !.back = Some(decode_frame(peer.bytes[1]))]
    /\ UNCHANGED << rt, state, cur, next, pc, frame, handshaked, reassembly,
                    tok, out, wire, serve_res, process_res, nread, notifies,
                    calls, last, results >>

CodecNext == Encode \/ Decode

SpecCodec == CodecInit /\ [][CodecNext]_vars

\* ---------------------------------------------------------- u64 arithmetic
\* A u64 is the sequence of its four 16-bit limbs, the least significant
\* first, so that the full range [0, 2^64) is kept.
Limb == 65536

\* the u64 of an integer below 2^31
U64(k) == << k % Limb, k \div Limb, 0, 0 >>

\* the u64 written as sixteen hexadecimal digits, most significant first
Hex(d) ==
    LET limb(i) == 4096 * d[i] + 256 * d[i + 1] + 16 * d[i + 2] + d[i + 3]
    IN  << limb(13), limb(9), limb(5), limb(1) >>

\* `n as u8`
as_u8(n) == n[1] % 256

\* `a | b` on bytes
BitOr(a, b) ==
    LET bit(x, i) == (x \div (2 ^ i)) % 2
        or(i) == IF bit(a, i) = 1 \/ bit(b, i) = 1 THEN 2 ^ i ELSE 0
    IN  or(0) + or(1) + or(2) + or(3) + or(4) + or(5) + or(6) + or(7)

\* `n >> k` for k < 16
Shr(n, k) ==
    LET low(i) == n[i] \div (2 ^ k)
        high(i) == IF i < 4 THEN (n[i + 1] % (2 ^ k)) * (2 ^ (16 - k)) ELSE 0
    IN  [i \in 1..4 |-> low(i) + high(i)]

\* `n << k` for k < 64: the bits shifted out are lost
Shl(n, k) ==
    LET q == k \div 16
        s == k % 16
        low(i) == (n[i] * (2 ^ s)) % Limb
        high(i) == IF i > 1 THEN n[i - 1] \div (2 ^ (16 - s)) ELSE 0
    IN  [i \in 1..4 |-> IF i - q >= 1 THEN low(i - q) + high(i - q) ELSE 0]

\* `a < b`
Lt(a, b) ==
    \/ a[4] < b[4]
    \/ a[4] = b[4] /\ a[3] < b[3]
    \/ a[4] = b[4] /\ a[3] = b[3] /\ a[2] < b[2]
    \/ a[4] = b[4] /\ a[3] = b[3] /\ a[2] = b[2] /\ a[1] < b[1]

\* `a + b`: the wrapped sum and whether it overflowed
Add(a, b) ==
    LET s1 == a[1] + b[1]
        s2 == a[2] + b[2] + s1 \div Limb
        s3 == a[3] + b[3] + s2 \div Limb
        s4 == a[4] + b[4] + s3 \div Limb
    IN  [n |-> << s1 % Limb, s2 % Limb, s3 % Limb, s4 % Limb >>,
         overflow |-> s4 >= Limb]

\* `a - b` for a >= b
Sub(a, b) ==
    LET d1 == a[1] - b[1]
        d2 == a[2] - b[2] - (IF d1 < 0 THEN 1 ELSE 0)
        d3 == a[3] - b[3] - (IF d2 < 0 THEN 1 ELSE 0)
        d4 == a[4] - b[4] - (IF d3 < 0 THEN 1 ELSE 0)
    IN  << d1 % Limb, d2 % Limb, d3 % Limb, d4 % Limb >>

\* ------------------------------------------------------------------ varint
\* varint::put, the loop: each byte written and the counter `sz`
RECURSIVE put_loop(_)
put_loop(n0) ==
    Only({ IF ~Lt(n, U64(128))
           THEN LET rest == put_loop(Shr(Sub(n, U64(128)), 7))
                IN  [bytes |-> << BitOr(as_u8(n), 128) >> \o rest.bytes,
                     sz |-> rest.sz + 1]
           ELSE [bytes |-> << as_u8(n) >>, sz |-> 1] :
           n \in { n0 } })

\* varint::put without the subtraction of 0xF0 before the shift
varint_put_no_offset(n) ==
    IF Lt(n, U64(240)) THEN [bytes |-> << as_u8(n) >>, sz |-> 1]
    ELSE LET rest == put_loop(Shr(n, 4))
         IN  [bytes |-> << BitOr(as_u8(n), 240) >> \o rest.bytes,
              sz |-> 1 + rest.sz]

\* varint::put: the bytes written and the size returned
varint_put(n) ==
    IF Lt(n, U64(240)) THEN [bytes |-> << as_u8(n) >>, sz |-> 1]
    ELSE LET rest == put_loop(Shr(Sub(n, U64(240)), 4))
         IN  [bytes |-> << BitOr(as_u8(n), 240) >> \o rest.bytes,
              sz |-> 1 + rest.sz]

\* varint::get, the loop.  `checks` is the overflow-checks setting of the
\* build: with it a shift by 64 or more and an overflowing `+=` panic,
\* without it the shift amount is taken modulo 64 and the sum wraps.
RECURSIVE get_loop(_, _, _, _)
get_loop(n0, r0, buf0, checks) ==
    Only({ IF buf = << >> THEN [tag |-> "Some", n |-> n, rest |-> buf]
           ELSE LET b == Head(buf)
                    sum == Add(n, Shl(U64(b), r % 64))
                IN  IF checks /\ (r >= 64 \/ sum.overflow) THEN [tag |-> "panic"]
                    ELSE IF b < 128
                         THEN [tag |-> "Some", n |-> sum.n, rest |-> Tail(buf)]
                    ELSE get_loop(sum.n, r + 7, Tail(buf), checks) :
           n \in { n0 }, r \in { r0 }, buf \in { buf0 } })

\* varint::get: None, or the number and the bytes left in the buffer
varint_get(buf0, checks) ==
    Only({ IF buf = << >> THEN [tag |-> "None", rest |-> buf]
           ELSE IF Head(buf) < 240
                THEN [tag |-> "Some", n |-> U64(Head(buf)), rest |-> Tail(buf)]
                ELSE get_loop(U64(Head(buf)), 4, Tail(buf), checks) :
           buf \in { buf0 } })

\* varint::size_of, the first number of each size from 2 to 10 bytes
SizeLimits ==
    << Hex(<< 0,0,0,0, 0,0,0,0, 0,0,0,0, 0,0,15,0 >>),
       Hex(<< 0,0,0,0, 0,0,0,0, 0,0,0,0, 0,8,15,0 >>),
       Hex(<< 0,0,0,0, 0,0,0,0, 0,0,0,4, 0,8,15,0 >>),
       Hex(<< 0,0,0,0, 0,0,0,0, 0,2,0,4, 0,8,15,0 >>),
       Hex(<< 0,0,0,0, 0,0,0,1, 0,2,0,4, 0,8,15,0 >>),
       Hex(<< 0,0,0,0, 0,0,8,1, 0,2,0,4, 0,8,15,0 >>),
       Hex(<< 0,0,0,0, 4,0,8,1, 0,2,0,4, 0,8,15,0 >>),
       Hex(<< 0,0,2,0, 4,0,8,1, 0,2,0,4, 0,8,15,0 >>),
       Hex(<< 1,0,2,0, 4,0,8,1, 0,2,0,4, 0,8,15,0 >>) >>

\* varint::size_of
size_of(n) ==
    IF Lt(n, SizeLimits[1]) THEN 1
    ELSE IF Lt(n, SizeLimits[2]) THEN 2
    ELSE IF Lt(n, SizeLimits[3]) THEN 3
    ELSE IF Lt(n, SizeLimits[4]) THEN 4
    ELSE IF Lt(n, SizeLimits[5]) THEN 5
    ELSE IF Lt(n, SizeLimits[6]) THEN 6
    ELSE IF Lt(n, SizeLimits[7]) THEN 7
    ELSE IF Lt(n, SizeLimits[8]) THEN 8
    ELSE IF Lt(n, SizeLimits[9]) THEN 9
    ELSE 10

\* varint::put and varint::get run on their own: `peer` holds the number
\* given to put (or none), the buffer, the bytes that follow the varint in
\* the buffer, the size put returned and the result of get.
U64Max == << Limb - 1, Limb - 1, Limb - 1, Limb - 1 >>

NoNumber == << >>

\* every number up to VarintDense, each size limit and its neighbours, the
\* powers of two and their predecessors, and the greatest u64
VarintNumbers ==
    { U64(k) : k \in 0..VarintDense }
    \cup { SizeLimits[i] : i \in 1..9 }
    \cup { Sub(SizeLimits[i], U64(1)) : i \in 1..9 }
    \cup { Add(SizeLimits[i], U64(1)).n : i \in 1..9 }
    \cup { Shl(U64(1), k) : k \in 0..63 }
    \cup { Sub(Shl(U64(1), k), U64(1)) : k \in 0..63 }
    \cup { U64Max }

\* the numbers whose encodings are cut short
VarintCut ==
    { SizeLimits[i] : i \in 1..9 } \cup { U64Max, U64(0), U64(239) }

\* buffers given to get: every prefix of an encoding, and a varint of
\* twelve bytes
VarintBuffers ==
    UNION { { SubSeq(varint_put(x).bytes, 1, k) : k \in 0..varint_put(x).sz } :
            x \in VarintCut }
    \cup { << 255, 255, 255, 255, 255, 255, 255, 255, 255, 255, 255, 0 >> }

VarintInit ==
    /\ peer \in { [n |-> << x >>, checks |-> c, buf |-> << >>, trail |-> t,
                   sz |-> 0, wrote |-> FALSE, back |-> None] :
                  x \in VarintNumbers, c \in BOOLEAN, t \in { << >>, << 255 >> } }
                \cup { [n |-> NoNumber, checks |-> c, buf |-> b, trail |-> << >>,
                        sz |-> 0, wrote |-> TRUE, back |-> None] :
                       b \in VarintBuffers, c \in BOOLEAN }
    /\ rt \in Runtimes
    /\ state = "Connecting"
    /\ cur = "none"
    /\ next = "none"
    /\ pc = "start"
    /\ frame = NoFrame
    /\ handshaked = None
    /\ reassembly = EmptyTable
    /\ tok = FALSE
    /\ out = <<>>
    /\ wire = <<>>
    /\ serve_res = NoResult
    /\ process_res = NoResult
    /\ nread = 0
    /\ notifies = <<>>
    /\ calls = <<>>
    /\ last = [n |-> 0, len |-> 0, st |-> "none", ty |-> "none", hc |-> FALSE]
    /\ results = <<>>

\* BufMutExt::put_varint
VarintPut ==
    /\ peer.n # NoNumber
    /\ ~peer.wrote
    /\ LET w == varint_put(peer.n[1])
       IN  peer' = [peer EXCEPT !.buf = w.bytes, !.sz = w.sz, !.wrote = TRUE]
    /\ UNCHANGED << rt, state, cur, next, pc, frame, handshaked, reassembly,
                    tok, out, wire, serve_res, process_res, nread, notifies,
                    calls, last, results >>

\* BufExt::varint
VarintGet ==
    /\ peer.wrote
    /\ peer.back = None
    /\ peer' = [peer EXCEPT
                  !.back = Some(varint_get(peer.buf \o peer.trail, peer.checks))]
    /\ UNCHANGED << rt, state, cur, next, pc, frame, handshaked, reassembly,
                    tok, out, wire, serve_res, process_res, nread, notifies,
                    calls, last, results >>

VarintNext == VarintPut \/ VarintGet

SpecVarint == VarintInit /\ [][VarintNext]_vars

\* -------------------------------------------------------------- typed data
\* A Typed value is its variant and its content: a 32-bit integer is its
\* two 16-bit limbs, a 64-bit integer its four, signed integers in two's
\* complement; an address, a string and a binary are their bytes.
\* `peer.checks` is the overflow-checks setting of the build.
OverflowChecks == peer.checks

TypedTypes ==
    << "Null", "Boolean", "Int32", "Uint32", "Int64", "Uint64", "Ipv4",
       "Ipv6", "String", "Binary" >>

\* data::Type as u8
TypedTag(ty) == CHOOSE t \in 0..9 : TypedTypes[t + 1] = ty

\* `n as u64` for an i32: the sign is extended
i32_as_u64(n) == n \o (IF n[2] >= Limb \div 2 THEN << Limb - 1, Limb - 1 >> ELSE << 0, 0 >>)

\* `n as u64` for a u32
u32_as_u64(n) == n \o << 0, 0 >>

\* `n as i32`, `n as u32` for a u64: the low 32 bits
u64_as_32(n) == << n[1], n[2] >>

\* `n as u64` for an i64 and `n as i64` for a u64: the same 64 bits
same_bits(n) == n

\* get_bytes: n bytes of the buffer if it holds that many (`n as usize` on
\* a 64-bit target)
get_bytes(buf0, n0) ==
    Only({ IF Lt(U64(Len(buf)), n) THEN [tag |-> "None", rest |-> buf]
           ELSE LET k == n[1] + Limb * n[2]
                IN  [tag |-> "Some", v |-> SubSeq(buf, 1, k),
                     rest |-> SubSeq(buf, k + 1, Len(buf))] :
           buf \in { buf0 }, n \in { n0 } })

\* String::from_utf8: the strings of the model are ASCII, a byte of 0x80 or
\* more stands for an ill-formed sequence
from_utf8(b) == \A i \in 1..Len(b) : b[i] < 128

\* BufExt::string
string(buf) ==
    Only({ IF sz.tag # "Some" THEN sz
           ELSE Only({ IF b.tag # "Some" THEN b
                       ELSE IF from_utf8(b.v) THEN b
                       ELSE [tag |-> "None", rest |-> b.rest] :
                       b \in { get_bytes(sz.rest, sz.n) } }) :
           sz \in { varint_get(buf, OverflowChecks) } })

\* put_bytes without the length before the bytes
put_bytes_no_length(b) == [bytes |-> b, sz |-> Len(b)]

\* put_bytes and BufMutExt::put_string: the bytes written and the size
\* returned
put_bytes(b) ==
    LET sz == varint_put(U64(Len(b)))
    IN  [bytes |-> sz.bytes \o b, sz |-> sz.sz + Len(b)]

\* BufMutExt::put_typed: the bytes written and the size returned
put_typed(data) ==
    LET tag == TypedTag(data.ty)
        number(n) == LET w == varint_put(n)
                     IN  [bytes |-> << tag >> \o w.bytes, sz |-> w.sz + 1]
    IN  CASE data.ty = "Null" -> [bytes |-> << tag >>, sz |-> 1]
          [] data.ty = "Boolean" ->
               [bytes |-> << BitOr(tag, IF data.v THEN 16 ELSE 0) >>, sz |-> 1]
          [] data.ty = "Int32" -> number(i32_as_u64(data.v))
          [] data.ty = "Uint32" -> number(u32_as_u64(data.v))
          [] data.ty = "Int64" -> number(same_bits(data.v))
          [] data.ty = "Uint64" -> number(data.v)
          [] data.ty = "Ipv4" -> [bytes |-> << tag >> \o data.v, sz |-> 1 + 4]
          [] data.ty = "Ipv6" -> [bytes |-> << tag >> \o data.v, sz |-> 1 + 16]
          [] data.ty = "String" ->
               LET w == put_bytes(data.v)
               IN  [bytes |-> << tag >> \o w.bytes, sz |-> w.sz + 1]
          [] data.ty = "Binary" ->
               LET sz == varint_put(U64(Len(data.v)))
               IN  [bytes |-> << tag >> \o sz.bytes \o data.v,
                    sz |-> sz.sz + Len(data.v) + 1]

\* typed_data: None, or the value, always with the bytes left in the buffer
typed_data(buf0) ==
    Only({ IF buf = << >> THEN [tag |-> "None", rest |-> buf]
           ELSE IF Head(buf) % 16 > 9 THEN [tag |-> "None", rest |-> Tail(buf)]
           ELSE LET ty == TypedTypes[(Head(buf) % 16) + 1]
                    some(v, rest) ==
                        [tag |-> "Some", v |-> [ty |-> ty, v |-> v], rest |-> rest]
                    number(cast(_)) ==
                        Only({ IF n.tag # "Some" THEN n ELSE some(cast(n.n), n.rest) :
                               n \in { varint_get(Tail(buf), OverflowChecks) } })
                    bytes(r) == IF r.tag # "Some" THEN r ELSE some(r.v, r.rest)
                    binary(n) == IF n.tag # "Some" THEN n ELSE get_bytes(n.rest, n.n)
                IN  CASE ty = "Null" ->
                           [tag |-> "Some", v |-> [ty |-> ty], rest |-> Tail(buf)]
                      [] ty = "Boolean" ->
                           some((Head(buf) \div 16) % 2 = 1, Tail(buf))
                      [] ty \in { "Int32", "Uint32" } -> number(u64_as_32)
                      [] ty = "Int64" -> number(same_bits)
                      [] ty = "Uint64" -> number(LAMBDA n : n)
                      [] ty = "Ipv4" ->
                           Only({ bytes(r) : r \in { get_bytes(Tail(buf), U64(4)) } })
                      [] ty = "Ipv6" ->
                           Only({ bytes(r) : r \in { get_bytes(Tail(buf), U64(16)) } })
                      [] ty = "String" ->
                           Only({ bytes(r) : r \in { string(Tail(buf)) } })
                      [] ty = "Binary" ->
                           Only({ bytes(r) :
                                  r \in { Only({ binary(n) :
                                      n \in { varint_get(Tail(buf), OverflowChecks) } }) } }) :
           buf \in { buf0 } })

\* put_typed and typed run on their own: `peer` holds the value given to
\* put_typed, the buffer, the bytes that follow the value in the buffer,
\* the size put_typed returned and the result of typed.
\* the connection is idle
Idle ==
    /\ rt \in Runtimes
    /\ state = "Connecting"
    /\ cur = "none"
    /\ next = "none"
    /\ pc = "start"
    /\ frame = NoFrame
    /\ handshaked = None
    /\ reassembly = EmptyTable
    /\ tok = FALSE
    /\ out = <<>>
    /\ wire = <<>>
    /\ serve_res = NoResult
    /\ process_res = NoResult
    /\ nread = 0
    /\ notifies = <<>>
    /\ calls = <<>>
    /\ last = [n |-> 0, len |-> 0, st |-> "none", ty |-> "none", hc |-> FALSE]
    /\ results = <<>>

StaysIdle ==
    UNCHANGED << rt, state, cur, next, pc, frame, handshaked, reassembly, tok,
                 out, wire, serve_res, process_res, nread, notifies, calls,
                 last, results >>

\* the 32 bits and the 64 bits of an integer in two's complement
I32(k) == << k % Limb, (k \div Limb) % Limb >>

I64(k) == I32(k) \o (IF k < 0 THEN << Limb - 1, Limb - 1 >> ELSE << 0, 0 >>)

\* "hello world"
HelloWorld == << 104, 101, 108, 108, 111, 32, 119, 111, 114, 108, 100 >>

\* a string of 240 bytes, whose length takes two bytes
LongString == [i \in 1..240 |-> 97]

SmallInts == (-20..20) \cup { 123, 239, 240, 456, 789, 999, 2288, -240, -2288 }

TypedValues ==
    { [ty |-> "Null"] }
    \cup { [ty |-> "Boolean", v |-> b] : b \in BOOLEAN }
    \cup { [ty |-> "Int32", v |-> n] :
           n \in { I32(k) : k \in SmallInts }
                 \cup { << 0, Limb \div 2 >>, << Limb - 1, Limb \div 2 - 1 >> } }
    \cup { [ty |-> "Uint32", v |-> n] :
           n \in { I32(k) : k \in SmallInts \cap Nat }
                 \cup { << 0, Limb \div 2 >>, << Limb - 1, Limb - 1 >> } }
    \cup { [ty |-> "Int64", v |-> n] :
           n \in { I64(k) : k \in SmallInts }
                 \cup { << 0, 0, 0, Limb \div 2 >>,
                        << Limb - 1, Limb - 1, Limb - 1, Limb \div 2 - 1 >> } }
    \cup { [ty |-> "Uint64", v |-> n] :
           n \in { I64(k) : k \in SmallInts \cap Nat }
                 \cup { SizeLimits[i] : i \in 1..9 } \cup { U64Max } }
    \cup { [ty |-> "Ipv4", v |-> a] :
           a \in { << 127, 0, 0, 1 >>, << 0, 0, 0, 0 >>, << 255, 255, 255, 255 >> } }
    \cup { [ty |-> "Ipv6", v |-> a] :
           a \in { << 0, 0, 0, 0, 0, 0, 0, 0, 0, 0, 255, 255, 192, 10, 2, 255 >>,
                   [i \in 1..16 |-> 0] } }
    \cup { [ty |-> "String", v |-> b] :
           b \in { << >>, << 97 >>, HelloWorld, LongString } }
    \cup { [ty |-> "Binary", v |-> b] :
           b \in { << >>, << 0, 128, 255 >>, HelloWorld, LongString } }

TypedInit ==
    /\ peer \in { [v |-> << x >>, checks |-> c, buf |-> << >>, trail |-> t,
                   sz |-> 0, wrote |-> FALSE, back |-> None] :
                  x \in TypedValues, c \in BOOLEAN, t \in { << >>, << 255 >> } }
    /\ Idle

\* BufMutExt::put_typed
TypedPut ==
    /\ ~peer.wrote
    /\ LET w == put_typed(peer.v[1])
       IN  peer' = [peer EXCEPT !.buf = w.bytes, !.sz = w.sz, !.wrote = TRUE]
    /\ StaysIdle

\* BufExt::typed
TypedGet ==
    /\ peer.wrote
    /\ peer.back = None
    /\ peer' = [peer EXCEPT !.back = Some(typed_data(peer.buf \o peer.trail))]
    /\ StaysIdle

TypedNext == TypedPut \/ TypedGet

SpecTyped == TypedInit /\ [][TypedNext]_vars

\* ---------------------------------------------- messages and actions
\* A Message is its name and its arguments, pairs of a key and a Typed
\* value; an Action is its type, scope, name and, for SetVar, value.  Names
\* and keys are ASCII byte sequences.
\* BufMutExt::put_kvlist
RECURSIVE put_kvlist(_)
put_kvlist(args) ==
    IF args = << >> THEN << >>
    ELSE put_bytes(Head(args)[1]).bytes \o put_typed(Head(args)[2]).bytes
         \o put_kvlist(Tail(args))

\* frame::encode::haproxy_notify
RECURSIVE encode_messages(_)
encode_messages(messages) ==
    IF messages = << >> THEN << >>
    ELSE LET message == Head(messages)
         IN  put_bytes(message.name).bytes \o << Len(message.args) % 256 >>
             \o put_kvlist(message.args) \o encode_messages(Tail(messages))

\* action::Type as u8
ActionTag(ty) == IF ty = "SetVar" THEN 1 ELSE 2

\* action::Scope as u8: Process, Session, Transaction, Request, Response
Scopes == 0..4

\* frame::encode::action
encode_action(action) ==
    IF action.ty = "SetVar"
    THEN << ActionTag("SetVar"), 3, action.scope >>
         \o put_bytes(action.name).bytes \o put_typed(action.value).bytes
    ELSE << ActionTag("UnsetVar"), 2, action.scope >>
         \o put_bytes(action.name).bytes

\* frame::encode::agent_ack
RECURSIVE encode_actions(_)
encode_actions(actions) ==
    IF actions = << >> THEN << >>
    ELSE encode_action(Head(actions)) \o encode_actions(Tail(actions))

\* BufExt::kv_list().take(nb).collect(): the pairs read until nb are read,
\* the buffer is empty or a pair fails to parse, and the bytes left
RECURSIVE kv_take(_, _)
kv_take(buf0, nb0) ==
    LET stop(rest) == [tag |-> "Some", v |-> << >>, rest |-> rest]
        pair(name, value, more) ==
            IF more.tag = "panic" THEN more
            ELSE [tag |-> "Some", v |-> << << name.v, value.v >> >> \o more.v,
                  rest |-> more.rest]
        after_value(name, value) ==
            IF value.tag = "panic" THEN value
            ELSE IF value.tag = "None" THEN stop(value.rest)
            ELSE Only({ pair(name, value, more) :
                        more \in { kv_take(value.rest, nb0 - 1) } })
        after_name(name) ==
            IF name.tag = "panic" THEN name
            ELSE IF name.tag = "None" THEN stop(name.rest)
            ELSE Only({ after_value(name, value) :
                        value \in { typed_data(name.rest) } })
    IN  Only({ IF nb = 0 \/ buf = << >> THEN stop(buf)
               ELSE Only({ after_name(name) : name \in { string(buf) } }) :
               buf \in { buf0 }, nb \in { nb0 } })

\* frame::decode::message
message(buf) ==
    LET none(rest) == [tag |-> "None", rest |-> rest]
        with_args(name, args) ==
            IF args.tag = "panic" THEN args
            ELSE [tag |-> "Some", v |-> [name |-> name.v, args |-> args.v],
                  rest |-> args.rest]
        after_name(name) ==
            IF name.tag # "Some" THEN name
            ELSE IF name.rest = << >> THEN none(name.rest)
            ELSE Only({ with_args(name, args) :
                        args \in { kv_take(Tail(name.rest), Head(name.rest)) } })
    IN  Only({ after_name(name) : name \in { string(buf) } })

\* frame::decode::list_of_messages, collected: the iterator ends at the
\* first message that fails to parse
RECURSIVE list_of_messages(_)
list_of_messages(buf0) ==
    LET cons(m, more) ==
            IF more.tag = "panic" THEN more
            ELSE [tag |-> "Some", v |-> << m.v >> \o more.v]
        after(m) ==
            IF m.tag = "panic" THEN m
            ELSE IF m.tag = "None" THEN [tag |-> "Some", v |-> << >>]
            ELSE Only({ cons(m, more) : more \in { list_of_messages(m.rest) } })
    IN  Only({ IF buf = << >> THEN [tag |-> "Some", v |-> << >>]
               ELSE Only({ after(m) : m \in { message(buf) } }) :
               buf \in { buf0 } })

\* frame::decode::action
action(buf0) ==
    LET none(rest) == [tag |-> "None", rest |-> rest]
        set_var(scope, name, value) ==
            IF value.tag # "Some" THEN value
            ELSE [tag |-> "Some",
                  v |-> [ty |-> "SetVar", scope |-> scope, name |-> name.v,
                         value |-> value.v],
                  rest |-> value.rest]
        after_name(ty, scope, name) ==
            IF name.tag # "Some" THEN name
            ELSE IF ty = ActionTag("UnsetVar")
                 THEN [tag |-> "Some",
                       v |-> [ty |-> "UnsetVar", scope |-> scope, name |-> name.v],
                       rest |-> name.rest]
            ELSE Only({ set_var(scope, name, value) :
                        value \in { typed_data(name.rest) } })
    IN  Only({ IF buf = << >> THEN none(buf)
               ELSE IF buf[1] \notin { ActionTag("SetVar"), ActionTag("UnsetVar") }
                    THEN none(Tail(buf))
               ELSE IF Len(buf) < 2 THEN none(Tail(buf))
               ELSE IF ~(\/ buf[1] = ActionTag("SetVar") /\ buf[2] = 3
                         \/ buf[1] = ActionTag("UnsetVar") /\ buf[2] = 2)
                    THEN none(SubSeq(buf, 3, Len(buf)))
               ELSE IF Len(buf) < 3 THEN none(SubSeq(buf, 3, Len(buf)))
               ELSE IF buf[3] \notin Scopes THEN none(SubSeq(buf, 4, Len(buf)))
               ELSE Only({ after_name(buf[1], buf[3], name) :
                           name \in { string(SubSeq(buf, 4, Len(buf))) } }) :
               buf \in { buf0 } })

\* frame::decode::list_of_actions, collected
RECURSIVE list_of_actions(_)
list_of_actions(buf0) ==
    LET cons(a, more) ==
            IF more.tag = "panic" THEN more
            ELSE [tag |-> "Some", v |-> << a.v >> \o more.v]
        after(a) ==
            IF a.tag = "panic" THEN a
            ELSE IF a.tag = "None" THEN [tag |-> "Some", v |-> << >>]
            ELSE Only({ cons(a, more) : more \in { list_of_actions(a.rest) } })
    IN  Only({ IF buf = << >> THEN [tag |-> "Some", v |-> << >>]
               ELSE Only({ after(a) : a \in { action(buf) } }) :
               buf \in { buf0 } })

\* Framer::read_frame of a HaproxyNotify or AgentAck frame with the given
\* payload bytes, ids 1 and 1, of a length within the limit
read_body(ty, buf) ==
    LET read(items) ==
            IF items.tag = "panic" THEN items
            ELSE Framer_read_frame(AgentMaxFrameSize,
                     [len |-> 1, ty |-> ty, flags |-> {"FIN"}, stream_id |-> 1,
                      frame_id |-> 1, body |-> items.v])
    IN  Only({ read(items) :
               items \in { IF ty = "HaproxyNotify" THEN list_of_messages(buf)
                           ELSE list_of_actions(buf) } })

\* The payload of a frame is written and read on its own: `peer` holds the
\* frame type, the messages or actions the sender wrote, the bytes of a
\* malformed item the sender put after them, the buffer and the result of
\* read_frame.
NameA == << 97 >>

NameB == << 98 >>

BodyMessages ==
    { [name |-> NameA, args |-> << >>],
      [name |-> NameB, args |-> << << NameA, [ty |-> "Null"] >> >>],
      [name |-> HelloWorld,
       args |-> << << NameA, [ty |-> "String", v |-> NameB] >>,
                   << NameB, [ty |-> "Int32", v |-> I32(-1)] >> >>] }

BodyActions ==
    { [ty |-> "SetVar", scope |-> 3, name |-> NameA, value |-> [ty |-> "String", v |-> NameB]],
      [ty |-> "SetVar", scope |-> 0, name |-> NameB, value |-> [ty |-> "Uint32", v |-> I32(240)]],
      [ty |-> "UnsetVar", scope |-> 4, name |-> NameA] }

\* items the decoder cannot parse in full, by what is wrong with them
BadMessages ==
    { [what |-> "truncated name", bytes |-> << 5, 97, 97 >>],
      [what |-> "no argument count", bytes |-> << 1, 97 >>],
      [what |-> "truncated value", bytes |-> << 1, 97, 1, 1, 98, 8, 5, 97 >>],
      [what |-> "unknown typed-data tag", bytes |-> << 1, 97, 1, 1, 98, 10 >>],
      [what |-> "fewer pairs than nargs", bytes |-> << 1, 97, 2, 1, 98, 0 >>] }

BadActions ==
    { [what |-> "unknown action type", bytes |-> << 9, 3, 0, 1, 97, 0 >>],
      [what |-> "wrong argument count", bytes |-> << 1, 2, 0, 1, 97, 0 >>],
      [what |-> "unknown scope", bytes |-> << 2, 2, 9, 1, 97 >>],
      [what |-> "truncated name", bytes |-> << 2, 2, 0, 5, 97 >>],
      [what |-> "truncated value", bytes |-> << 1, 3, 0, 1, 97, 8, 5, 97 >>] }

NotBad == [what |-> "nothing", bytes |-> << >>]

BodyInit ==
    /\ peer \in { [ty |-> "HaproxyNotify", items |-> i, bad |-> b, checks |-> c,
                   buf |-> << >>, wrote |-> FALSE, back |-> None] :
                  i \in SeqsUpTo(BodyMessages, 2),
                  b \in BadMessages \cup { NotBad }, c \in BOOLEAN }
                \cup { [ty |-> "AgentAck", items |-> i, bad |-> b, checks |-> c,
                        buf |-> << >>, wrote |-> FALSE, back |-> None] :
                       i \in SeqsUpTo(BodyActions, 2),
                       b \in BadActions \cup { NotBad }, c \in BOOLEAN }
    /\ Idle

\* frame::encode::haproxy_notify, frame::encode::agent_ack
BodyPut ==
    /\ ~peer.wrote
    /\ peer' = [peer EXCEPT
                  !.buf = IF peer.ty = "HaproxyNotify"
                          THEN encode_messages(peer.items)
                          ELSE encode_actions(peer.items),
                  !.wrote = TRUE]
    /\ StaysIdle

\* Framer::read_frame
BodyRead ==
    /\ peer.wrote
    /\ peer.back = None
    /\ peer' = [peer EXCEPT
                  !.back = Some(read_body(peer.ty, peer.buf \o peer.bad.bytes))]
    /\ StaysIdle

BodyNext == BodyPut \/ BodyRead

SpecBody == BodyInit /\ [][BodyNext]_vars

\* ----------------------------------------------------------- the acceptor
\* Agent::make_serve on its own. `peer` holds the acceptor: where make_serve
\* is suspended (pc), whether Shutdown.token is cancelled, whether the
\* accept branch of the current select! is still enabled (armed), the
\* connections waiting in the listener's backlog, the number that ever
\* arrived, the tasks spawned on Shutdown.tracker, each "running" or
\* "finished", and for each task whether its child token is cancelled
\* (toks).
\*
\* A task is process(conn, tok) with tok a child of Shutdown.token: it ends
\* when its connection ends, and once the token is cancelled every path of
\* process and serve leads to its end (Spec: OuterCancel, InnerCancel).
\* task::Builder::spawn does not fail in tokio, so `?` at agent.rs:93 is
\* not taken.
AgentTasks == { "running", "finished" }

AllFinished(tasks) == \A i \in 1..Len(tasks) : tasks[i] = "finished"

AgentInit ==
    /\ peer = [pc |-> "select", cancelled |-> FALSE, armed |-> TRUE,
               pending |-> 0, arrived |-> 0, tasks |-> << >>, toks |-> << >>]
    /\ Idle

\* a peer connects to the listening socket
AgentArrive ==
    /\ peer.arrived < MaxConns
    /\ peer' = [peer EXCEPT !.pending = @ + 1, !.arrived = @ + 1]
    /\ StaysIdle

\* CancellationToken::child_token: the child of a cancelled token is
\* cancelled
child_token(cancelled) == cancelled

\* CancellationToken::cancel on the parent: every child is cancelled too
cancel_parent(toks) == [i \in 1..Len(toks) |-> TRUE]

\* what cancel would do on a clone of the acceptor's token
cancel_shared(toks, i) == [j \in 1..Len(toks) |-> TRUE]

\* CancellationToken::cancel on the child i: that child alone
cancel(toks, i) == [toks EXCEPT ![i] = TRUE]

\* the token Connection i holds: the child token made for its task
Connection_tok(i) == i

\* Shutdown::shutdown: self.token.cancel()
Shutdown_shutdown ==
    /\ ~peer.cancelled
    /\ peer' = [peer EXCEPT !.cancelled = TRUE, !.toks = cancel_parent(@)]
    /\ StaysIdle

\* select!: `Ok((stream, peer)) = self.listener.accept()` completes with a
\* connection; make_service is awaited next. The select! is not biased:
\* the branch may be taken when the token is cancelled too.
AgentAccept ==
    /\ peer.pc = "select"
    /\ peer.armed
    /\ peer.pending > 0
    /\ peer' = [peer EXCEPT !.pc = "make", !.pending = @ - 1]
    /\ StaysIdle

\* select!: accept() completes with Err, which the pattern Ok(..) does not
\* match: the branch is disabled and the select! goes on waiting for its
\* other branch. The failure may or may not take a connection from the
\* backlog.
AgentAcceptFailed ==
    /\ peer.pc = "select"
    /\ peer.armed
    /\ \E taken \in { 0, Min(1, peer.pending) } :
         peer' = [peer EXCEPT !.armed = FALSE, !.pending = @ - taken]
    /\ StaysIdle

\* make_service answers, the task is spawned on the tracker with a child
\* token, and the loop goes round to a new select!
AgentSpawn ==
    /\ peer.pc = "make"
    /\ peer' = [peer EXCEPT !.pc = "select", !.armed = TRUE,
                            !.tasks = Append(@, "running"),
                            !.toks = Append(@, child_token(peer.cancelled))]
    /\ StaysIdle

\* select!: `self.shutdown.token.cancelled()` completes: break, and
\* tracker.close()
AgentCancelled ==
    /\ peer.pc = "select"
    /\ peer.cancelled
    /\ peer' = [peer EXCEPT !.pc = "wait"]
    /\ StaysIdle

\* a connection ends while its token is not cancelled: serve() returns
\* from its loop head or with a read error
AgentTaskEnds(i) ==
    /\ ~peer.toks[i]
    /\ peer.tasks[i] = "running"
    /\ peer' = [peer EXCEPT !.tasks[i] = "finished"]
    /\ StaysIdle

\* a handler fails on connection i: serve() writes the AgentDisconnect,
\* cancels the connection's token and breaks
AgentTaskFails(i) ==
    /\ ~peer.toks[i]
    /\ peer.tasks[i] = "running"
    /\ peer' = [peer EXCEPT !.tasks[i] = "finished",
                            !.toks = cancel(@, Connection_tok(i))]
    /\ StaysIdle

\* a task whose token is cancelled ends
AgentTaskCancelled(i) ==
    /\ peer.toks[i]
    /\ peer.tasks[i] = "running"
    /\ peer' = [peer EXCEPT !.tasks[i] = "finished"]
    /\ StaysIdle

\* what lets tracker.wait() go on without the tracker being empty
AgentReturns_no_wait(tasks) == TRUE

\* tracker.wait() completes: the tracker is closed and empty
AgentReturns(tasks) == AllFinished(tasks)

\* make_serve returns Ok(())
AgentDrained ==
    /\ peer.pc = "wait"
    /\ AgentReturns(peer.tasks)
    /\ peer' = [peer EXCEPT !.pc = "returned"]
    /\ StaysIdle

AgentNext ==
    \/ AgentArrive
    \/ Shutdown_shutdown
    \/ AgentAccept
    \/ AgentAcceptFailed
    \/ AgentSpawn
    \/ AgentCancelled
    \/ \E i \in 1..MaxConns : i <= Len(peer.tasks) /\ AgentTaskEnds(i)
    \/ \E i \in 1..MaxConns : i <= Len(peer.tasks) /\ AgentTaskFails(i)
    \/ \E i \in 1..MaxConns : i <= Len(peer.tasks) /\ AgentTaskCancelled(i)
    \/ AgentDrained

SpecAgent == AgentInit /\ [][AgentNext]_vars

\* The tokio scheduler polls every task that has been woken: the acceptor
\* woken by the token or by make_service goes on, and so does each task
\* woken by its child token. The select! picks among ready branches at
\* random, so it does not prefer accept() for ever.
SpecAgentFair ==
    /\ SpecAgent
    /\ WF_vars(AgentCancelled)
    /\ WF_vars(AgentSpawn)
    /\ WF_vars(AgentDrained)
    /\ \A i \in 1..MaxConns : WF_vars(i <= Len(peer.tasks) /\ AgentTaskCancelled(i))

\* ------------------------------------------------------- errors on their own
\* context() and the conversion to a Disconnect run on their own. `peer`
\* holds the error a call failed with (src, as context() boxes it), the
\* Error after the contexts attached so far (err), the reasons given, the
\* outermost last, and the status and the Disconnect taken from err.
Reasons == { "read frame", "parse frame", "call service" }

ErrorSources ==
    { BoxStatus(s) : s \in Statuses }
    \cup { BoxError(ErrStatus(s)) : s \in Statuses }
    \cup { BoxError([tag |-> "Closed"]),
           BoxError([tag |-> "Io", text |-> "broken pipe"]),
           BoxOther("service unavailable") }

ErrorInit ==
    /\ peer \in [src : ErrorSources, err : { None }, reasons : { << >> },
                 status : { None }, disconnect : { None }]
    /\ Idle

\* Err(e).context(reason), on the failed call or on the Error built so far
ErrorContext ==
    /\ Len(peer.reasons) < MaxContexts
    /\ \E reason \in Reasons :
         peer' = [peer EXCEPT
                    !.err = Some(context(IF peer.err = None THEN peer.src
                                         ELSE BoxError(peer.err[1]), reason)),
                    !.reasons = Append(@, reason),
                    !.status = None,
                    !.disconnect = None]
    /\ StaysIdle

\* err.status()
ErrorStatus ==
    /\ peer.err # None
    /\ peer.status = None
    /\ peer' = [peer EXCEPT !.status = Some(Error_status(peer.err[1]))]
    /\ StaysIdle

\* Disconnect::from(err)
ErrorDisconnect ==
    /\ peer.err # None
    /\ peer.disconnect = None
    /\ peer' = [peer EXCEPT !.disconnect = Some(DisconnectFrom(peer.err[1]))]
    /\ StaysIdle

ErrorNext ==
    \/ ErrorContext
    \/ ErrorStatus
    \/ ErrorDisconnect

SpecError == ErrorInit /\ [][ErrorNext]_vars

\* ------------------------------------------- capability lists as strings
\* The value of the "capabilities" key is a string. A string is held here
\* as the pieces `split(',')` cuts it into, so there is always at least one
\* piece: the empty string is the one empty piece.
EmptyString == << "" >>

\* Display of a Capability (parse_display, snake_case)
Capability_to_string(c) ==
    CASE c = "Fragmentation" -> "fragmentation"
      [] c = "Pipelining" -> "pipelining"
      [] c = "Async" -> "async"

\* str::trim on the pieces that occur
trim(piece) ==
    CASE piece = " async" -> "async"
      [] piece = "pipelining " -> "pipelining"
      [] OTHER -> piece

\* FromStr of a Capability: one of the three names, nothing else
Capability_from_str(piece) ==
    CASE piece = "fragmentation" -> Some("Fragmentation")
      [] piece = "pipelining" -> Some("Pipelining")
      [] piece = "async" -> Some("Async")
      [] OTHER -> None

\* From<Punctuated<I>> for Typed: the items' texts joined by ","; the join
\* of no item is the empty string
Punctuated(items) ==
    IF items = << >> THEN EmptyString
    ELSE [i \in 1..Len(items) |-> Capability_to_string(items[i])]

\* KVList::capabilities: the key absent is NoCapabilities; every piece of
\* the string is trimmed and parsed, and one piece that is no capability
\* makes the whole Invalid
KVList_capabilities(value) ==
    IF value = None THEN [ok |-> FALSE, err |-> "NoCapabilities"]
    ELSE IF \E i \in 1..Len(value[1]) : Capability_from_str(trim(value[1][i])) = None
    THEN [ok |-> FALSE, err |-> "Invalid"]
    ELSE [ok |-> TRUE,
          caps |-> [i \in 1..Len(value[1]) |-> Capability_from_str(trim(value[1][i]))[1]]]

\* `peer` holds a capability list to write, the value of the key (None:
\* the key is absent) and what KVList::capabilities made of it.
CapPieces == { "", "fragmentation", "pipelining", "async", " async",
               "pipelining ", "Async" }

CapValues ==
    { None } \cup { Some(t) : t \in SeqsUpTo(CapPieces, MaxCaps) \ { << >> } }

CapsInit ==
    /\ peer \in [caps : SeqsUpTo(Capabilities, MaxCaps), value : CapValues,
                 back : { None }]
    /\ Idle

\* kv::capabilities(caps) is put in a hello
CapsWrite ==
    /\ peer.back = None
    /\ peer.value # Some(Punctuated(peer.caps))
    /\ peer' = [peer EXCEPT !.value = Some(Punctuated(peer.caps))]
    /\ StaysIdle

\* KVList::capabilities reads the key
CapsRead ==
    /\ peer.back = None
    /\ peer' = [peer EXCEPT !.back = Some(KVList_capabilities(peer.value))]
    /\ StaysIdle

CapsNext ==
    \/ CapsWrite
    \/ CapsRead

SpecCaps == CapsInit /\ [][CapsNext]_vars

\* ------------------------------------------------- the frame handlers
\* Error::try_from(status_code): the status with that numeric code
Error_try_from(code) ==
    IF \E e \in Statuses : StatusCode(e) = code
    THEN Some(CHOOSE e \in Statuses : StatusCode(e) = code)
    ELSE None

\* Option::unwrap_or
unwrap_or(opt, default) == IF opt = None THEN default ELSE opt[1]

\* what notify_handler would do if it took any disconnect for the peer's
notify_handler_any_disconnect(f) ==
    CASE f.ty = "HaproxyNotify" -> [ok |-> TRUE, v |-> Some(f.messages)]
      [] f.ty \in { "HaproxyDisconnect", "AgentDisconnect" } ->
           [ok |-> FALSE, err |-> unwrap_or(Error_try_from(f.status_code), "Unknown")]
      [] OTHER -> [ok |-> FALSE, err |-> "Invalid"]

\* the service made by notify_handler
notify_handler(f) ==
    CASE f.ty = "HaproxyNotify" -> [ok |-> TRUE, v |-> Some(f.messages)]
      [] f.ty = "HaproxyDisconnect" ->
           [ok |-> FALSE, err |-> unwrap_or(Error_try_from(f.status_code), "Unknown")]
      [] OTHER -> [ok |-> FALSE, err |-> "Invalid"]

\* the service made by ack_handler
ack_handler(f) ==
    CASE f.ty = "AgentAck" -> [ok |-> TRUE, v |-> Some(f.actions)]
      [] f.ty = "AgentDisconnect" ->
           [ok |-> FALSE, err |-> unwrap_or(Error_try_from(f.status_code), "Unknown")]
      [] OTHER -> [ok |-> FALSE, err |-> "Invalid"]

\* `peer` holds a frame and what each handler answered for it.
HandlerCodes == 0..(MaxCode + 1) \cup { 98, 99, 100 }

HandlerFrames ==
    { [ty |-> "HaproxyNotify", fragmented |-> fr, stream_id |-> 1,
       frame_id |-> 1, messages |-> ms] :
        fr \in BOOLEAN, ms \in SeqsUpTo(BodyMessages, 2) }
    \cup { ack(1, 1, as) : as \in SeqsUpTo(BodyActions, 2) }
    \cup { [ty |-> ty, status_code |-> c, message |-> "some reason"] :
             ty \in { "HaproxyDisconnect", "AgentDisconnect" }, c \in HandlerCodes }
    \cup { [ty |-> "HaproxyHello", supported_versions |-> << V2_0 >>,
            max_frame_size |-> 1, capabilities |-> << >>, healthcheck |-> None],
           [ty |-> "AgentHello", version |-> V2_0, max_frame_size |-> 1,
            capabilities |-> {}] }

HandlerInit ==
    /\ peer \in [f : HandlerFrames, notified : { None }, acked : { None }]
    /\ Idle

\* svc.call(frame) on notify_handler's service
HandlerNotify ==
    /\ peer.notified = None
    /\ peer' = [peer EXCEPT !.notified = Some(notify_handler(peer.f))]
    /\ StaysIdle

\* svc.call(frame) on ack_handler's service
HandlerAck ==
    /\ peer.acked = None
    /\ peer' = [peer EXCEPT !.acked = Some(ack_handler(peer.f))]
    /\ StaysIdle

HandlerNext ==
    \/ HandlerNotify
    \/ HandlerAck

SpecHandler == HandlerInit /\ [][HandlerNext]_vars

\* ------------------------------------------------------------------ Acker
\* AgentAck::new: an ack with no flag and no action
Ack_new(stream_id, frame_id) == ack(stream_id, frame_id, << >>)

\* oneshot::Sender::send: the value reaches the receiver unless the receiver
\* was dropped, and then the value comes back as the error
oneshot_send(chan, value) ==
    IF chan.alive
    THEN [chan |-> [chan EXCEPT !.value = Append(@, value)], ok |-> TRUE]
    ELSE [chan |-> chan, ok |-> FALSE]

\* Acker::new: the acker holds the ack and the sender of a fresh channel
Acker_new(stream_id, frame_id) ==
    [acker |-> Some(Ack_new(stream_id, frame_id)),
     chan |-> [alive |-> TRUE, value |-> << >>]]

\* what complete would be if it left the ack in the acker
Acker_complete_keeps(a) ==
    IF a.acker # None
    THEN LET sent == oneshot_send(a.chan, a.acker[1])
         IN  [acker |-> a.acker, chan |-> sent.chan,
              ret |-> IF sent.ok THEN OkResult ELSE ErrResult([tag |-> "Closed"])]
    ELSE [acker |-> None, chan |-> a.chan, ret |-> ErrResult([tag |-> "Closed"])]

\* Acker::complete: take() the inner pair and send its ack
Acker_complete(a) ==
    IF a.acker # None
    THEN LET sent == oneshot_send(a.chan, a.acker[1])
         IN  [acker |-> None, chan |-> sent.chan,
              ret |-> IF sent.ok THEN OkResult ELSE ErrResult([tag |-> "Closed"])]
    ELSE [acker |-> None, chan |-> a.chan, ret |-> ErrResult([tag |-> "Closed"])]

\* Acker::abort: take() the inner pair, set aborted and send the ack
Acker_abort(a) ==
    IF a.acker # None
    THEN LET sent == oneshot_send(a.chan, [a.acker[1] EXCEPT !.aborted = TRUE])
         IN  [acker |-> None, chan |-> sent.chan,
              ret |-> IF sent.ok THEN OkResult ELSE ErrResult([tag |-> "Closed"])]
    ELSE [acker |-> None, chan |-> a.chan, ret |-> ErrResult([tag |-> "Closed"])]

\* Acker::set_var and Acker::unset_var: push the action while the inner pair
\* is there
Acker_push(a, pushed) ==
    IF a.acker # None
    THEN [acker |-> Some([a.acker[1] EXCEPT !.actions = Append(@, pushed)]),
          chan |-> a.chan]
    ELSE [acker |-> None, chan |-> a.chan]

\* `peer` holds one acker with its channel, the ids it was created with and
\* the log of what was called on it, each call with what it returned.
MaxOps == 4

AckerInit ==
    /\ \E s \in StreamIds, f \in FrameIds :
         peer = [a |-> Acker_new(s, f), stream_id |-> s, frame_id |-> f,
                 log |-> << >>, dropped |-> FALSE]
    /\ Idle

Logged(op, arg, ret) == [op |-> op, arg |-> arg, ret |-> ret]

\* acker.complete()
AckerComplete ==
    /\ ~peer.dropped
    /\ Len(peer.log) < MaxOps
    /\ LET r == Acker_complete(peer.a)
       IN  peer' = [peer EXCEPT !.a = [acker |-> r.acker, chan |-> r.chan],
                                !.log = Append(@, Logged("complete", None, r.ret))]
    /\ StaysIdle

\* acker.abort()
AckerAbort ==
    /\ ~peer.dropped
    /\ Len(peer.log) < MaxOps
    /\ LET r == Acker_abort(peer.a)
       IN  peer' = [peer EXCEPT !.a = [acker |-> r.acker, chan |-> r.chan],
                                !.log = Append(@, Logged("abort", None, r.ret))]
    /\ StaysIdle

\* acker.set_var(scope, name, value) or acker.unset_var(scope, name)
AckerPush ==
    /\ ~peer.dropped
    /\ Len(peer.log) < MaxOps
    /\ \E pushed \in BodyActions :
         peer' = [peer EXCEPT !.a = Acker_push(peer.a, pushed),
                              !.log = Append(@, Logged("push", pushed, OkResult))]
    /\ StaysIdle

\* the acker goes out of scope: Drop::drop calls complete and ignores what
\* it returns
AckerDrop ==
    /\ ~peer.dropped
    /\ LET r == Acker_complete(peer.a)
       IN  peer' = [peer EXCEPT !.a = [acker |-> r.acker, chan |-> r.chan],
                                !.log = Append(@, Logged("drop", None, r.ret)),
                                !.dropped = TRUE]
    /\ StaysIdle

\* the holder of the oneshot::Receiver drops it
AckerReceiverDropped ==
    /\ peer.a.chan.alive
    /\ peer' = [peer EXCEPT !.a.chan.alive = FALSE,
                            !.log = Append(@, Logged("receiver dropped", None, OkResult))]
    /\ StaysIdle

AckerNext ==
    \/ AckerComplete
    \/ AckerAbort
    \/ AckerPush
    \/ AckerDrop
    \/ AckerReceiverDropped

SpecAcker == AckerInit /\ [][AckerNext]_vars

\* -------------------------------------------------------------- Dispatcher
\* A dispatcher `d` is the receiving map (key -> the channel its sender
\* feeds), the pairs sent on the processing channel, whether the Processor
\* at its other end is alive, and the message channels created so far: each
\* with its queue, the number of live senders and whether its receiver is
\* alive.

\* unbounded_channel(): one sender, held by the caller
NewChannel == [queue |-> << >>, senders |-> 1, alive |-> TRUE]

\* `for msg in notify.messages { if sender.send(msg).is_err() { break; } }`
send_all(ch, messages) ==
    IF ch.alive THEN [ch EXCEPT !.queue = @ \o messages] ELSE ch

\* the end of recieve_messages: the local `sender` goes out of scope
drop_sender(ch) == [ch EXCEPT !.senders = @ - 1]

\* what recieve_messages would be if it kept the key of a finished run
Dispatcher_recieve_messages_keeps(d, notify) ==
    LET key == << notify.stream_id, notify.frame_id >>
    IN  IF key \notin DOMAIN d.receiving
        THEN LET n == Len(d.channels) + 1
                 receiving == [k \in DOMAIN d.receiving \cup { key } |->
                                 IF k = key THEN n ELSE d.receiving[k]]
                 ch == [NewChannel EXCEPT !.senders = 2]
             IN  IF ~d.processor
                 THEN [d |-> [d EXCEPT !.receiving = receiving,
                                     !.channels = Append(@,
                                         [drop_sender(ch) EXCEPT !.alive = FALSE])],
                       ret |-> ErrResult([tag |-> "Closed"])]
                 ELSE [d |-> [d EXCEPT
                                !.receiving = receiving,
                                !.processing = Append(@,
                                    [acker |-> Acker_new(notify.stream_id, notify.frame_id),
                                     messages |-> n]),
                                !.channels = Append(@,
                                    drop_sender(send_all(ch, notify.messages)))],
                       ret |-> [tag |-> "Ok", acked |-> Some(n)]]
        ELSE LET n == d.receiving[key]
                 ch == [d.channels[n] EXCEPT !.senders = @ + 1]
             IN  [d |-> [d EXCEPT !.channels[n] =
                                    drop_sender(send_all(ch, notify.messages))],
                  ret |-> [tag |-> "Ok", acked |-> None]]

\* Dispatcher::recieve_messages
Dispatcher_recieve_messages(d, notify) ==
    LET key == << notify.stream_id, notify.frame_id >>
    IN  IF key \notin DOMAIN d.receiving
        THEN \* Entry::Vacant: a new channel, its sender kept in the map for
             \* a fragmented notify, and the (acker, receiver) pair sent to
             \* the processor; `?` returns if the Processor is gone, and the
             \* pair is dropped with the error
             LET n == Len(d.channels) + 1
                 receiving ==
                     IF notify.fragmented
                     THEN [k \in DOMAIN d.receiving \cup { key } |->
                             IF k = key THEN n ELSE d.receiving[k]]
                     ELSE d.receiving
                 ch == IF notify.fragmented
                       THEN [NewChannel EXCEPT !.senders = 2]
                       ELSE NewChannel
             IN  IF ~d.processor
                 THEN [d |-> [d EXCEPT !.receiving = receiving,
                                     !.channels = Append(@,
                                         [drop_sender(ch) EXCEPT !.alive = FALSE])],
                       ret |-> ErrResult([tag |-> "Closed"])]
                 ELSE [d |-> [d EXCEPT
                                !.receiving = receiving,
                                !.processing = Append(@,
                                    [acker |-> Acker_new(notify.stream_id, notify.frame_id),
                                     messages |-> n]),
                                !.channels = Append(@,
                                    drop_sender(send_all(ch, notify.messages)))],
                       ret |-> [tag |-> "Ok", acked |-> Some(n)]]
        ELSE \* Entry::Occupied: a clone of the sender for a fragmented
             \* notify, the sender itself, removed, otherwise
             LET n == d.receiving[key]
                 receiving ==
                     IF notify.fragmented
                     THEN d.receiving
                     ELSE [k \in DOMAIN d.receiving \ { key } |-> d.receiving[k]]
                 ch == IF notify.fragmented
                       THEN [d.channels[n] EXCEPT !.senders = @ + 1]
                       ELSE d.channels[n]
             IN  [d |-> [d EXCEPT !.receiving = receiving,
                                 !.channels[n] =
                                    drop_sender(send_all(ch, notify.messages))],
                  ret |-> [tag |-> "Ok", acked |-> None]]

\* Messages::poll_next on a channel: try_recv gives the next message, Empty
\* while a sender lives, Disconnected once the queue is empty and none does
Messages_poll_next(ch) ==
    IF ch.queue # << >> THEN [poll |-> "Ready", item |-> Some(Head(ch.queue))]
    ELSE IF ch.senders = 0 THEN [poll |-> "Ready", item |-> None]
    ELSE [poll |-> "Pending"]

\* `peer` holds the dispatcher and the log of the notifies it was given,
\* each with what recieve_messages returned.
MaxNotifies == 3

DispatchKeys == { << 0, 1 >>, << 1, 1 >> }

DispatchMessages ==
    { << >>,
      << [name |-> NameA, args |-> << >>] >>,
      << [name |-> NameB, args |-> << >>], [name |-> NameA, args |-> << >>] >> }

DispatchNotifies ==
    { [ty |-> "HaproxyNotify", fragmented |-> fr, stream_id |-> k[1],
       frame_id |-> k[2], messages |-> ms] :
        fr \in BOOLEAN, k \in DispatchKeys, ms \in DispatchMessages }

\* Dispatcher::new(processing)
Dispatcher_new ==
    [receiving |-> << >>, processing |-> << >>, processor |-> TRUE,
     channels |-> << >>]

DispatchInit ==
    /\ peer = [d |-> Dispatcher_new, log |-> << >>]
    /\ Idle

\* dispatcher.recieve_messages(notify)
DispatchReceive ==
    /\ Len(peer.log) < MaxNotifies
    /\ \E notify \in DispatchNotifies :
         LET r == Dispatcher_recieve_messages(peer.d, notify)
         IN  peer' = [d |-> r.d,
                      log |-> Append(peer.log, [notify |-> notify, ret |-> r.ret])]
    /\ StaysIdle

\* the Processor is dropped: the pairs still in its channel go with it, the
\* ones a service took stay
DispatchProcessorDropped ==
    /\ peer.d.processor
    /\ peer' = [peer EXCEPT !.d.processor = FALSE]
    /\ StaysIdle

\* the holder of a Messages stream drops it
DispatchMessagesDropped ==
    /\ \E n \in 1..Len(peer.d.channels) :
         /\ peer.d.channels[n].alive
         /\ peer' = [peer EXCEPT !.d.channels[n].alive = FALSE]
    /\ StaysIdle

DispatchNext ==
    \/ DispatchReceive
    \/ DispatchProcessorDropped
    \/ DispatchMessagesDropped

SpecDispatch == DispatchInit /\ [][DispatchNext]_vars

\* ------------------------------------------------------- ABORT on a notify
\* One notify as it comes off the socket of a connection in Processing: the
\* frame read, what Processing::handle_frame does with it up to the service
\* call, the table it leaves and the messages it calls the service with
Notified(negotiated, table, wf) ==
    LET r == Framer_read_frame(AgentMaxFrameSize, wf)
    IN  IF ~r.ok THEN [read |-> r]
        ELSE [read |-> r,
              handled |-> Processing_handle_frame(negotiated, table, r.frame)]

\* what the connection does once the service answered `res`
Replied(n, res) ==
    IF n.read.ok /\ n.handled.h.tag = "Await"
    THEN Processing_called(n.read.frame, res)
    ELSE None

\* `peer` holds a negotiated connection, its table, a notify without ABORT,
\* and what became of that notify and of the same notify with ABORT set.
AbortTables ==
    { EmptyTable,
      TableInsert(EmptyTable, << 0, 1 >>, << 7 >>),
      TableInsert(EmptyTable, << 1, 1 >>, << 7 >>) }

AbortNotifies ==
    { wf \in PeerFrames(2) : wf.ty = "HaproxyNotify" /\ "ABORT" \notin wf.flags }

WithAbort(wf) == [wf EXCEPT !.flags = @ \cup { "ABORT" }]

AbortInit ==
    /\ \E caps \in { { "Pipelining" }, { "Fragmentation", "Pipelining" } },
          table \in AbortTables, wf \in AbortNotifies :
         peer = [handshaked |-> [version |-> V2_0,
                                 max_frame_size |-> AgentMaxFrameSize,
                                 capabilities |-> caps],
                 table |-> table, wf |-> wf,
                 plain |-> None, flagged |-> None,
                 res |-> None, plain_reply |-> None, flagged_reply |-> None]
    /\ Idle

\* the notify arrives without ABORT
AbortPlain ==
    /\ peer.plain = None
    /\ peer' = [peer EXCEPT
                  !.plain = Some(Notified(peer.handshaked, peer.table, peer.wf))]
    /\ StaysIdle

\* the same notify arrives with ABORT, on a connection in the same state
AbortFlagged ==
    /\ peer.flagged = None
    /\ peer' = [peer EXCEPT
                  !.flagged = Some(Notified(peer.handshaked, peer.table,
                                            WithAbort(peer.wf)))]
    /\ StaysIdle

\* the service gives the same answer on both connections
AbortAnswered ==
    /\ peer.plain # None
    /\ peer.flagged # None
    /\ peer.res = None
    /\ \E res \in ServiceResults :
         peer' = [peer EXCEPT !.res = Some(res),
                              !.plain_reply = Replied(peer.plain[1], res),
                              !.flagged_reply = Replied(peer.flagged[1], res)]
    /\ StaysIdle

AbortNext ==
    \/ AbortPlain
    \/ AbortFlagged
    \/ AbortAnswered

SpecAbort == AbortInit /\ [][AbortNext]_vars

\* ------------------------------------------------------ frames as written
\* "status-code" and "message", the keys of a disconnect frame
STATUS_CODE_KEY == << 115, 116, 97, 116, 117, 115, 45, 99, 111, 100, 101 >>

MSG_KEY == << 109, 101, 115, 115, 97, 103, 101 >>

\* frame::encode::frame for the two frames a connection writes in
\* Processing, as bytes: the type, the metadata, and the actions of an ack
\* or the two pairs of a disconnect
put_frame(f, host) ==
    LET md == encode_metadata(
                  IF f.ty = "AgentAck" THEN Ack_metadata(f) ELSE Metadata_default,
                  host)
    IN  << TypeByte(f.ty) >> \o md.flags
        \o varint_put(U64(md.stream_id)).bytes
        \o varint_put(U64(md.frame_id)).bytes
        \o (IF f.ty = "AgentAck" THEN encode_actions(f.actions)
            ELSE put_kvlist(<< << STATUS_CODE_KEY,
                                  [ty |-> "Uint32", v |-> I32(f.status_code)] >>,
                               << MSG_KEY,
                                  [ty |-> "String", v |-> f.message] >> >>))

\* framer::write_frame: four bytes of length, patched once the frame is in
\* the buffer, then the frame; `(buf.len() - 4) as u32` is the number of
\* bytes for every buffer below 4 GiB. The BytesMut grows past its capacity.
write_frame(f, host) ==
    LET body == put_frame(f, host)
    IN  [len |-> Len(body), body |-> body]

\* Framer::write_frame: max_frame_size is the capacity the buffer starts
\* with and nothing else
Framer_write_frame(max_frame_size, f, host) == write_frame(f, host)

\* `peer` holds the max frame size of the handshake, a frame the connection
\* hands to write_frame in Processing and what is written for it.
WriteSizes == { 32, 256 }

WriteActions ==
    BodyActions
    \cup { [ty |-> "SetVar", scope |-> 2, name |-> NameA,
            value |-> [ty |-> "String", v |-> LongString]] }

WriteFrames ==
    { ack(sid, 1, as) : sid \in StreamIds, as \in SeqsUpTo(WriteActions, 2) }
    \cup { AgentDisconnect(Disconnect_new(st, msg)) :
             st \in { "Normal", "Timeout", "Unknown" },
             msg \in { << >>, HelloWorld, LongString } }

WriteInit ==
    /\ peer \in [max_frame_size : WriteSizes, f : WriteFrames, host : Hosts,
                 written : { None }]
    /\ Idle

\* codec.write_frame(frame)
WriteFrame ==
    /\ peer.written = None
    /\ peer' = [peer EXCEPT
                  !.written = Some(Framer_write_frame(peer.max_frame_size,
                                                      peer.f, peer.host))]
    /\ StaysIdle

WriteNext == WriteFrame

SpecWrite == WriteInit /\ [][WriteNext]_vars

\* ------------------------------------------------------------ observations
\* The connection state: the State value the running iteration started
\* from, otherwise the field.  An iteration's transition takes effect when
\* serve assigns `self.state = next`, leaves the loop, or is dropped.
ConnState == IF cur # "none" THEN cur ELSE state

IsDisconnect(f, code) == f.ty = "AgentDisconnect" /\ f.status_code = code

\* this step read a frame that the framer decoded
Accepted == last'.n = nread + 1 /\ last'.ty # "none"

\* the frames this step handed to write_frame
NewlyWritten == SubSeq(Written', Len(Written) + 1, Len(Written'))

\* ---------------------------------------------------------------------- C1
\* C1: the connection state only moves Connecting -> Processing,
\* Connecting -> Disconnected or Processing -> Disconnected; once it is
\* Disconnected it stays Disconnected, and no frame is read or written
\* from then on.
C1_StateOrder ==
    [][ /\ ConnState' # ConnState =>
             << ConnState, ConnState' >> \in
                 { << "Connecting", "Processing" >>,
                   << "Connecting", "Disconnecting" >>,
                   << "Processing", "Disconnecting" >> }
        /\ ConnState = "Disconnecting" =>
             /\ ConnState' = "Disconnecting"
             /\ nread' = nread
             /\ Written' = Written ]_vars

\* a connection that went through Processing and ended Disconnected
C1_Witness ==
    /\ pc = "done"
    /\ ConnState = "Disconnecting"
    /\ Len(calls) > 0
    /\ \E i \in 1..Len(wire) : wire[i].ty = "AgentAck"

\* ---------------------------------------------------------------------- C2
\* C2: a HaproxyHello with healthcheck=true that negotiates writes exactly
\* one AgentHello and makes Disconnected the next state; when serve()
\* returns it returns Ok, the connection is Disconnected, the AgentHello is
\* the only frame written (no AgentDisconnect) and the hello is the only
\* frame read.
C2_Healthcheck ==
    /\ [][ (Accepted /\ last'.st = "Connecting" /\ last'.hc /\ handshaked' # None) =>
             /\ NewlyWritten = << agent_hello(handshaked'[1]) >>
             /\ next' = "Disconnecting" ]_vars
    /\ [](  (last.st = "Connecting" /\ last.hc /\ handshaked # None
             /\ serve_res # NoResult) =>
             /\ serve_res = OkResult
             /\ ConnState = "Disconnecting"
             /\ wire = << agent_hello(handshaked[1]) >>
             /\ out = << >>
             /\ nread = 1 )

C2_Witness ==
    /\ last.st = "Connecting"
    /\ last.hc
    /\ handshaked # None
    /\ serve_res = OkResult
    /\ wire = << agent_hello(handshaked[1]) >>

\* ---------------------------------------------------------------------- C3
NotPermitted(st, ty) ==
    \/ st = "Connecting" /\ ty # "HaproxyHello"
    \/ st = "Processing" /\ ty \notin { "HaproxyNotify", "HaproxyDisconnect" }

Terminating == pc \in { "write_disconnect", "bye", "done" }

\* C3: a decoded frame that the current state does not permit makes the
\* agent write one AgentDisconnect with status-code 4 (Invalid) and end in
\* Disconnected; no AgentHello or AgentAck is written for it.
C3_InvalidFrame ==
    /\ [][ (Accepted /\ NotPermitted(last'.st, last'.ty)) =>
             /\ Len(NewlyWritten) = 1
             /\ IsDisconnect(NewlyWritten[1], 4)
             /\ pc' = "write_disconnect" ]_vars
    /\ [][ (last.n > 0 /\ NotPermitted(last.st, last.ty) /\ last.ty # "none") =>
             /\ Terminating'
             /\ pc' = "done" => ConnState' = "Disconnecting"
             /\ \A i \in 1..Len(NewlyWritten) :
                    NewlyWritten[i].ty \notin { "AgentHello", "AgentAck" } ]_vars

C3_Witness ==
    /\ last.st = "Processing"
    /\ last.ty = "HaproxyHello"
    /\ pc = "done"
    /\ IsDisconnect(wire[Len(wire)], 4)

\* ---------------------------------------------------------------------- C4
\* C4: a HaproxyDisconnect received in Processing makes the agent write one
\* AgentDisconnect with status-code 0 (Normal); the connection ends in
\* Disconnected and no further frame is read.
C4_PeerDisconnect ==
    /\ [][ (Accepted /\ last'.st = "Processing" /\ last'.ty = "HaproxyDisconnect") =>
             /\ Len(NewlyWritten) = 1
             /\ IsDisconnect(NewlyWritten[1], 0)
             /\ pc' = "write_disconnect" ]_vars
    /\ [][ (last.st = "Processing" /\ last.ty = "HaproxyDisconnect") =>
             /\ nread' = nread
             /\ Terminating'
             /\ pc' = "done" => ConnState' = "Disconnecting" ]_vars

C4_Witness ==
    /\ last.st = "Processing"
    /\ last.ty = "HaproxyDisconnect"
    /\ pc = "done"
    /\ serve_res = OkResult
    /\ IsDisconnect(wire[Len(wire)], 0)
    /\ ConnState = "Disconnecting"

\* ---------------------------------------------------------------------- C5
\* C5: at most one AgentDisconnect is handed to the socket, and no frame
\* follows it.
C5_SingleDisconnect ==
    \A i \in 1..Len(Written) :
        Written[i].ty = "AgentDisconnect" => i = Len(Written)

\* ---------------------------------------------------------------------- C6
\* C6: after a length prefix greater than the connection's maximum frame
\* size the body is not decoded and the agent has sent an AgentDisconnect
\* with status-code 9 (BadFrameSize) when it closes.
C6_OversizeReply ==
    (last.n > 0 /\ last.len > rt.max_frame_size /\ pc = "done") =>
        /\ last.ty = "none"
        /\ \E i \in 1..Len(wire) : IsDisconnect(wire[i], 9)

\* ---------------------------------------------------------------------- C7
\* C7: no frame longer than the negotiated max frame size is accepted in
\* Processing.
C7_NegotiatedLimit ==
    (last.st = "Processing" /\ last.ty # "none") =>
        last.len <= handshaked[1].max_frame_size

\* ---------------------------------------------------------------------- C8
\* C8: without Fragmentation negotiated, the messages of a fragmented
\* notify never reach the service and no AgentAck answers it; the agent
\* has sent an AgentDisconnect with status-code 10 when it closes.
C8_FragmentNotSupported ==
    \A i \in 1..Len(notifies) :
        (~supports_fragmentation(handshaked[1]) /\ notifies[i].frag) =>
            /\ \A c \in 1..Len(calls) : calls[c].msgs # notifies[i].messages
            /\ \A w \in 1..Len(Written) :
                  ~( /\ Written[w].ty = "AgentAck"
                     /\ << Written[w].stream_id, Written[w].frame_id >> = notifies[i].key )
            /\ pc = "done" => \E w \in 1..Len(wire) : IsDisconnect(wire[w], 10)

\* ---------------------------------------------------------------------- C9
\* the messages buffered for key k after the notifies h[1..i]
RECURSIVE PendingFor(_, _, _)
PendingFor(h, i, k) ==
    IF i = 0 THEN << >>
    ELSE IF h[i].key = k
         THEN IF h[i].frag THEN PendingFor(h, i - 1, k) \o h[i].messages ELSE << >>
         ELSE PendingFor(h, i - 1, k)

\* one invocation per FIN notify, with everything received for its key
\* since the key's previous FIN, in arrival order
RECURSIVE ExpectedCalls(_, _)
ExpectedCalls(h, i) ==
    IF i = 0 THEN << >>
    ELSE IF h[i].frag THEN ExpectedCalls(h, i - 1)
         ELSE Append(ExpectedCalls(h, i - 1),
                     [key |-> h[i].key,
                      msgs |-> PendingFor(h, i - 1, h[i].key) \o h[i].messages])

RECURSIVE Flatten(_)
Flatten(ss) == IF ss = << >> THEN << >> ELSE Head(ss) \o Flatten(Tail(ss))

Delivered == Flatten([c \in 1..Len(calls) |-> calls[c].msgs])

Fragmenting == handshaked # None /\ supports_fragmentation(handshaked[1])

\* this step handled a notify on a connection that negotiated Fragmentation
NotifyStep ==
    /\ Accepted
    /\ last'.st = "Processing"
    /\ last'.ty = "HaproxyNotify"
    /\ Fragmenting

\* C9: with Fragmentation negotiated the service is invoked once per FIN
\* notify, with the concatenation of the messages received for its key in
\* arrival order; a fragment causes no invocation and no reply; no message
\* is delivered twice, none is dropped, none reaches another key's call.
C9_Reassembly ==
    /\ [](Fragmenting =>
            /\ calls = ExpectedCalls(notifies, Len(notifies))
            /\ \A a, b \in 1..Len(Delivered) : Delivered[a] = Delivered[b] => a = b
            /\ \A i \in 1..Len(notifies) :
                 \A m \in ToSet(notifies[i].messages) :
                    \/ \E c \in 1..Len(calls) :
                          calls[c].key = notifies[i].key /\ m \in ToSet(calls[c].msgs)
                    \/ /\ notifies[i].key \in DOMAIN reassembly
                       /\ m \in ToSet(reassembly[notifies[i].key])
            /\ \A c \in 1..Len(calls) : \A m \in ToSet(calls[c].msgs) :
                 \E i \in 1..Len(notifies) :
                    notifies[i].key = calls[c].key /\ m \in ToSet(notifies[i].messages))
    /\ [][ (NotifyStep /\ notifies'[Len(notifies')].frag) =>
             /\ calls' = calls
             /\ Written' = Written
             /\ pc' = "select" ]_vars

\* a call that received the fragments of its key although a fragment of
\* another key arrived in between
C9_Witness ==
    /\ Fragmenting
    /\ \E c \in 1..Len(calls) : Len(calls[c].msgs) >= 2
    /\ \E i, j \in 1..Len(notifies) :
          /\ i < j
          /\ j < Len(notifies)
          /\ notifies[i].frag
          /\ notifies[j].frag
          /\ notifies[i].key # notifies[j].key
          /\ ~notifies[Len(notifies)].frag
          /\ notifies[Len(notifies)].key = notifies[i].key

\* --------------------------------------------------------------------- C10
\* the keys whose most recent notify had FIN clear
RECURSIVE OpenKeys(_, _)
OpenKeys(h, i) ==
    IF i = 0 THEN {}
    ELSE IF h[i].frag THEN OpenKeys(h, i - 1) \cup { h[i].key }
         ELSE OpenKeys(h, i - 1) \ { h[i].key }

\* C10: a key is in the reassembly table iff the most recent frame with
\* that key had FIN clear: a fragment inserts an absent key and keeps a
\* present one, a FIN frame removes a present key with its buffer and
\* leaves the table unchanged when the key is absent.
C10_TableKeys ==
    /\ [](Fragmenting => DOMAIN reassembly = OpenKeys(notifies, Len(notifies)))
    /\ [][ NotifyStep =>
             LET n == notifies'[Len(notifies')]
             IN  /\ (n.frag /\ n.key \notin DOMAIN reassembly) =>
                        /\ DOMAIN reassembly' = DOMAIN reassembly \cup { n.key }
                        /\ reassembly'[n.key] = n.messages
                 /\ (n.frag /\ n.key \in DOMAIN reassembly) =>
                        /\ DOMAIN reassembly' = DOMAIN reassembly
                        /\ reassembly'[n.key] = reassembly[n.key] \o n.messages
                 /\ (~n.frag /\ n.key \in DOMAIN reassembly) =>
                        reassembly' = TableRemove(reassembly, n.key)
                 /\ (~n.frag /\ n.key \notin DOMAIN reassembly) =>
                        reassembly' = reassembly
                 /\ \A k \in DOMAIN reassembly \ { n.key } :
                        k \in DOMAIN reassembly' /\ reassembly'[k] = reassembly[k] ]_vars

\* a key was inserted, kept and then removed by its FIN frame while
\* another key is still buffered
C10_Witness ==
    /\ Fragmenting
    /\ Len(notifies) >= 3
    /\ ~notifies[Len(notifies)].frag
    /\ \E i \in 1..(Len(notifies) - 1) :
          notifies[i].frag /\ notifies[i].key = notifies[Len(notifies)].key
    /\ DOMAIN reassembly # {}
    /\ notifies[Len(notifies)].key \notin DOMAIN reassembly

\* --------------------------------------------------------------------- C11
\* the AgentAck frames handed to write_frame, in order
Acks == SelectSeq(Written, LAMBDA f : f.ty = "AgentAck")

\* C11: the k-th AgentAck carries the ids of the notify that started the
\* k-th service call, has fragmented = false and aborted = false, so FIN
\* is among its wire flags and ABORT is not; and a notify with FIN set was
\* received for its (stream_id, frame_id).
C11_AckIds ==
    \A k \in 1..Len(Acks) :
        /\ k <= Len(calls)
        /\ << Acks[k].stream_id, Acks[k].frame_id >> = calls[k].key
        /\ ~Acks[k].fragmented
        /\ ~Acks[k].aborted
        /\ Ack_metadata(Acks[k]).flags = {"FIN"}
        /\ \E i \in 1..Len(notifies) :
              notifies[i].key = calls[k].key /\ ~notifies[i].frag

\* --------------------------------------------------------------------- C12
\* the service call answered in this step, with the given outcome
Answered(tag) ==
    /\ pc = "call"
    /\ Len(results') = Len(results) + 1
    /\ results'[Len(results')].tag = tag

LastResult(tag) == results # << >> /\ results[Len(results)].tag = tag

\* C12: when max_process_time expires the connection writes one
\* AgentDisconnect with status-code 2; from then on no AgentAck is written,
\* no frame is read, no service call is made or answered, and the
\* connection ends in Disconnected; the notify has no ack.
C12_Timeout ==
    /\ [][ Answered("Timeout") =>
             /\ Len(NewlyWritten) = 1
             /\ IsDisconnect(NewlyWritten[1], 2)
             /\ pc' = "write_disconnect" ]_vars
    /\ [][ LastResult("Timeout") =>
             /\ results' = results
             /\ calls' = calls
             /\ nread' = nread
             /\ Terminating'
             /\ pc' = "done" => ConnState' = "Disconnecting"
             /\ \A i \in 1..Len(NewlyWritten) : NewlyWritten[i].ty # "AgentAck" ]_vars
    /\ [](LastResult("Timeout") => Len(Acks) = Len(calls) - 1)

\* a call timed out after an earlier one was acked, and serve() returned
C12_Witness ==
    /\ LastResult("Timeout")
    /\ Len(results) >= 2
    /\ pc = "done"
    /\ serve_res = OkResult
    /\ IsDisconnect(wire[Len(wire)], 2)
    /\ ConnState = "Disconnecting"

\* --------------------------------------------------------------------- C13
\* C13: when the service returns an error the connection writes one
\* AgentDisconnect with status-code 99 whose message is the error's display
\* text; from then on no AgentAck is written and the connection ends in
\* Disconnected; the notify has no ack.
C13_ServiceError ==
    /\ [][ Answered("Err") =>
             /\ Len(NewlyWritten) = 1
             /\ IsDisconnect(NewlyWritten[1], 99)
             /\ NewlyWritten[1].message = results'[Len(results')].text
             /\ pc' = "write_disconnect" ]_vars
    /\ [][ LastResult("Err") =>
             /\ results' = results
             /\ Terminating'
             /\ pc' = "done" => ConnState' = "Disconnecting"
             /\ \A i \in 1..Len(NewlyWritten) : NewlyWritten[i].ty # "AgentAck" ]_vars
    /\ [](LastResult("Err") => Len(Acks) = Len(calls) - 1)

\* the service refused a notify and serve() returned after the disconnect
C13_Witness ==
    /\ LastResult("Err")
    /\ results[Len(results)].text = "denied"
    /\ pc = "done"
    /\ serve_res = OkResult
    /\ IsDisconnect(wire[Len(wire)], 99)
    /\ wire[Len(wire)].message = "denied"

\* --------------------------------------------------------------------- C14
\* the hello's payload, in the handshake specification
HsHello == peer.body

\* the hello carries the three required keys and has been handled
HsHandled ==
    /\ nread = 1
    /\ HsHello.supported_versions # None
    /\ HsHello.max_frame_size # None
    /\ HsHello.capabilities # None

CommonVersions ==
    ToSet(HsHello.supported_versions[1]) \cap ToSet(rt.supported_versions)

HellosWritten == SelectSeq(Written, LAMBDA f : f.ty = "AgentHello")

ClientMaxFrameSize == KVList_max_frame_size(HsHello.max_frame_size[1])

C16_Capabilities ==
    (HsHandled /\ handshaked # None) =>
        LET both == ToSet(HsHello.capabilities[1]) \cap ToSet(rt.capabilities)
        IN  /\ \A cap \in Capabilities :
                  cap \in handshaked[1].capabilities <=> cap \in both
            /\ handshaked[1].capabilities \subseteq Capabilities
            /\ \A i \in 1..Len(HellosWritten) :
                   HellosWritten[i].capabilities = both

\* the client offers a capability the agent lacks and one it shares
C16_Witness ==
    /\ HsHandled
    /\ HsHello.capabilities[1] = << "Async", "Pipelining" >>
    /\ rt.capabilities = << "Pipelining", "Fragmentation" >>
    /\ Len(wire) = 1
    /\ wire[1].ty = "AgentHello"
    /\ wire[1].capabilities = { "Pipelining" }

\* --------------------------------------------------------------------- C17
\* the status the first missing required key of the hello stands for
MissingKey ==
    IF HsHello.supported_versions = None THEN "NoVersion"
    ELSE IF HsHello.max_frame_size = None THEN "NoFrameSize"
    ELSE IF HsHello.capabilities = None THEN "NoCapabilities"
    ELSE "none"

\* C17: a hello that lacks a required key ends the connection with the
\* error of that key: serve() reports that status and the agent has sent an
\* AgentDisconnect with its status-code (5, 6 or 7).
C17_MissingKey ==
    (nread = 1 /\ pc = "done" /\ MissingKey # "none") =>
        /\ \E i \in 1..Len(wire) : IsDisconnect(wire[i], StatusCode(MissingKey))
        /\ serve_res \in { OkResult, ErrResult(ErrStatus(MissingKey)) }

\* ----------------------------------------------------------- C18, C19, C20
Invalid == [ok |-> FALSE, err |-> "Invalid"]

\* the bytes of a received frame have been decoded
Decoded == peer.f = NoFrame /\ peer.back # None

\* a Frame value has been encoded and its bytes decoded
RoundTripped == peer.f # NoFrame /\ peer.back # None

\* C18: the decoder rejects as Invalid every Hello or Disconnect frame whose
\* stream_id or frame_id is not zero, and every HaproxyNotify or AgentAck
\* frame whose stream_id is zero or whose frame_id is zero.
C18_MetadataConstraints ==
    Decoded =>
        LET w == peer.bytes[1]
            ty == TypeOf(w.type)
        IN  /\ ( /\ ty \in { "HaproxyHello", "AgentHello",
                             "HaproxyDisconnect", "AgentDisconnect" }
                 /\ (w.md.stream_id # 0 \/ w.md.frame_id # 0) )
               => peer.back[1] = Invalid
            /\ ( /\ ty \in { "HaproxyNotify", "AgentAck" }
                 /\ (w.md.stream_id = 0 \/ w.md.frame_id = 0) )
               => peer.back[1] = Invalid

\* C19: decoding the bytes produced by encoding a Frame value F, of any of
\* the seven variants, yields exactly F.
C19_RoundTrip ==
    RoundTripped => peer.back[1] = [ok |-> TRUE, frame |-> peer.f]

\* the flags of the metadata a Frame value is encoded with
FlagsOf(f) ==
    IF f.ty = "HaproxyNotify" THEN Notify_metadata(f).flags
    ELSE IF f.ty = "AgentAck" THEN Ack_metadata(f).flags
    ELSE Metadata_default.flags

\* C20: the flags field of every serialized frame is big-endian with bit 0
\* as FIN and bit 1 as ABORT (00 00 00 01 for FIN, 00 00 00 03 for
\* FIN|ABORT), and the decoder recovers the flag set from those four bytes
\* for all four combinations of FIN and ABORT.
C20_FlagBytes ==
    /\ (peer.f # NoFrame /\ peer.bytes # NoBytes)
       => peer.bytes[1].md.flags
            = << 0, 0, 0, (IF "FIN" \in FlagsOf(peer.f) THEN 1 ELSE 0)
                          + (IF "ABORT" \in FlagsOf(peer.f) THEN 2 ELSE 0) >>
    /\ (peer.bytes # NoBytes)
       => \A fl \in SUBSET { "FIN", "ABORT" } :
            peer.bytes[1].md.flags = Flags_bits(fl)
            => decode_metadata(peer.bytes[1].md).flags = fl

\* ------------------------------------------------------------------- C21
\* a number has been written by put
VarintWritten == peer.n # NoNumber /\ peer.wrote

\* C21: for every u64 n, put writes and returns size_of(n) bytes, get on
\* those bytes yields n and consumes exactly them, and the sizes change at
\* 240, 2288, 264432 and 33818864.
C21_VarintRoundTrip ==
    /\ VarintWritten =>
         /\ peer.sz = size_of(peer.n[1])
         /\ Len(peer.buf) = peer.sz
         /\ peer.back # None =>
              peer.back[1] = [tag |-> "Some", n |-> peer.n[1], rest |-> peer.trail]
    /\ size_of(U64(239)) = 1 /\ size_of(U64(240)) = 2
    /\ size_of(U64(2287)) = 2 /\ size_of(U64(2288)) = 3
    /\ size_of(U64(264431)) = 3 /\ size_of(U64(264432)) = 4
    /\ size_of(U64(33818863)) = 4 /\ size_of(U64(33818864)) = 5

\* the greatest u64 has been written in ten bytes, more bytes follow it in
\* the buffer, and it has been read back
C21_Witness ==
    /\ VarintWritten
    /\ peer.n[1] = U64Max
    /\ peer.sz = 10
    /\ peer.trail # << >>
    /\ peer.back # None

\* ------------------------------------------------------------------- C22
\* the buffer ends before the varint is complete
Truncated(buf) ==
    \/ buf = << >>
    \/ /\ Head(buf) >= 240
       /\ \A i \in 2..Len(buf) : buf[i] >= 128

\* C22: get reports an error, and no number, whenever the buffer is empty
\* or ends before a byte below 0x80 has closed a varint whose first byte is
\* 0xF0 or more.
C22_VarintNoData ==
    (peer.n = NoNumber /\ peer.back # None /\ Truncated(peer.buf))
        => peer.back[1].tag = "None"

\* ------------------------------------------------------------------- C23
\* C23: for every typed value, put_typed returns the number of bytes it
\* wrote, and typed on those bytes yields the value and consumes all of
\* them.
C23_TypedRoundTrip ==
    peer.wrote =>
        /\ peer.sz = Len(peer.buf)
        /\ peer.back # None =>
             peer.back[1] = [tag |-> "Some", v |-> peer.v[1], rest |-> peer.trail]

\* the Int32 -1 and the empty string have been written and read back, with
\* more bytes after them in the buffer
C23_Witness ==
    /\ peer.back # None
    /\ peer.trail # << >>
    /\ \/ peer.v[1] = [ty |-> "Int32", v |-> << Limb - 1, Limb - 1 >>] /\ peer.sz = 11
       \/ peer.v[1] = [ty |-> "String", v |-> << >>] /\ peer.sz = 2

\* ------------------------------------------------------------------- C24
\* C24: read_frame fails with Invalid whenever the body of a HaproxyNotify
\* or AgentAck frame holds a message or action that cannot be parsed in
\* full; it never returns a frame with only the items parsed before it.
C24_BodyErrors ==
    (peer.back # None /\ peer.bad # NotBad) => peer.back[1] = Invalid

\* ------------------------------------------------------------------- C25
\* the AgentDisconnect that process() sends when its token is cancelled
Goodbye == agent_disconnect("Normal", "shutting down")

\* C25: a connection task whose token has been cancelled ends with an
\* AgentDisconnect as the last frame it wrote (the shutdown one is
\* AgentDisconnect{Normal, "shutting down"}); it never ends with a reply,
\* or with nothing written at all.
C25_ShutdownGoodbye ==
    (pc = "done" /\ tok) =>
        /\ Written # << >>
        /\ Written[Len(Written)].ty = "AgentDisconnect"

TakenBy(ag) == Len(ag.tasks) + (IF ag.pc = "make" THEN 1 ELSE 0)

\* C27: once the shutdown token is cancelled, make_serve takes no further
\* connection from the listening socket.
C27_NoAcceptAfterShutdown ==
    [][peer.cancelled => TakenBy(peer') = TakenBy(peer)]_vars

\* ------------------------------------------------------------------- C28
\* C28: while the shutdown token is not cancelled and make_serve is in its
\* loop, a connection waiting on the listening socket can be accepted,
\* whether or not an accept has failed before.
C28_AcceptAfterError ==
    (~peer.cancelled /\ peer.pc = "select" /\ peer.pending > 0) => peer.armed

\* ------------------------------------------------------------------- C29
\* C29: while the connection's token is cancelled and a service call is in
\* flight, the task writes no AgentAck: the call is abandoned.
C29_NoAckAfterCancel ==
    [][(tok /\ pc = "call") =>
          \A i \in (Len(Written) + 1)..Len(Written') :
              Written'[i].ty # "AgentAck"]_vars

\* ------------------------------------------------------------------- C30
\* the protocol status of the error a call failed with, if it has one
Carried(source) ==
    CASE source.is = "Status" -> Some(source.status)
      [] source.is = "Error" /\ source.err.tag = "Status" -> Some(source.err.status)
      [] OTHER -> None

\* C30: however many contexts are attached to an error, Error::status gives
\* the protocol status it carried; the Disconnect made from it has that
\* status code and the outermost context as its message, and has the code
\* of Unknown when the error carried no status.
C30_ContextKeepsStatus ==
    /\ peer.status # None => peer.status[1] = Carried(peer.src)
    /\ peer.disconnect # None =>
         IF Carried(peer.src) # None
         THEN peer.disconnect[1] =
                  [status_code |-> StatusCode(Carried(peer.src)[1]),
                   message |-> peer.reasons[Len(peer.reasons)]]
         ELSE peer.disconnect[1].status_code = StatusCode("Unknown")

\* a Timeout wrapped in three contexts has given its status and its
\* Disconnect
C30_Witness ==
    /\ peer.src = BoxStatus("Timeout")
    /\ Len(peer.reasons) = MaxContexts
    /\ peer.status = Some(Some("Timeout"))
    /\ peer.disconnect # None
    /\ peer.disconnect[1].status_code = 2

\* ------------------------------------------------------------------- C31
\* C31: the empty string as the value of "capabilities" is read as the
\* empty capability list.
C31_EmptyCapabilities ==
    (peer.value = Some(EmptyString) /\ peer.back # None)
        => peer.back[1] = [ok |-> TRUE, caps |-> << >>]

\* ------------------------------------------------------------------- C32
\* the tokens that a step cancels
NewlyCancelled ==
    { j \in 1..Len(peer.toks) : peer.toks'[j] /\ ~peer.toks[j] }

StatusOfCode(code) ==
    CASE code = 0 -> "Normal" [] code = 1 -> "Io" [] code = 2 -> "Timeout"
      [] code = 3 -> "TooBig" [] code = 4 -> "Invalid" [] code = 5 -> "NoVersion"
      [] code = 6 -> "NoFrameSize" [] code = 7 -> "NoCapabilities"
      [] code = 8 -> "BadVersion" [] code = 9 -> "BadFrameSize"
      [] code = 10 -> "FragmentNotSupported" [] code = 11 -> "InterlacedFrames"
      [] code = 12 -> "FrameIdNotFound" [] code = 13 -> "ResourceAllocErr"
      [] OTHER -> "Unknown"

\* C33: notify_handler answers a HaproxyNotify with its messages, a
\* HaproxyDisconnect with the error of its status code (Unknown for a code
\* that is no status) and every other frame with Invalid; ack_handler does
\* the same for AgentAck and AgentDisconnect.
C33_Handlers ==
    /\ peer.notified # None =>
         peer.notified[1] =
           (CASE peer.f.ty = "HaproxyNotify" -> [ok |-> TRUE, v |-> Some(peer.f.messages)]
              [] peer.f.ty = "HaproxyDisconnect" ->
                   [ok |-> FALSE, err |-> StatusOfCode(peer.f.status_code)]
              [] OTHER -> [ok |-> FALSE, err |-> "Invalid"])
    /\ peer.acked # None =>
         peer.acked[1] =
           (CASE peer.f.ty = "AgentAck" -> [ok |-> TRUE, v |-> Some(peer.f.actions)]
              [] peer.f.ty = "AgentDisconnect" ->
                   [ok |-> FALSE, err |-> StatusOfCode(peer.f.status_code)]
              [] OTHER -> [ok |-> FALSE, err |-> "Invalid"])

\* both handlers have answered an AgentDisconnect with the code of Io
C33_Witness ==
    /\ peer.f.ty = "AgentDisconnect"
    /\ peer.f.status_code = 1
    /\ peer.notified = Some([ok |-> FALSE, err |-> "Invalid"])
    /\ peer.acked = Some([ok |-> FALSE, err |-> "Io"])

\* ------------------------------------------------------------------- C34
\* C34: every frame that is serialized with the ABORT flag is serialized
\* with the FIN flag too.
C34_AbortImpliesFin ==
    (peer.f # NoFrame /\ peer.bytes # NoBytes) =>
        ("ABORT" \in FlagsOf(peer.f) => "FIN" \in FlagsOf(peer.f))

\* ------------------------------------------------------------------- C35
\* C35: a frame is read only while no service call is in flight and every
\* reply has been written; at most one call is unanswered at any time; the
\* k-th AgentAck written answers the k-th notify that started a call.
C35_Serialized ==
    /\ [][nread' # nread => (pc = "select" /\ frame = NoFrame /\ out = << >>)]_vars
    /\ [](/\ Len(calls) <= Len(results) + 1
          /\ pc = "call" => Len(calls) = Len(results) + 1
          /\ Len(Acks) <= Len(calls)
          /\ \A k \in 1..Len(Acks) :
                << Acks[k].stream_id, Acks[k].frame_id >> = calls[k].key)

\* with Pipelining negotiated two notifies have been answered one after the
\* other and a third frame has been read
C35_Witness ==
    /\ handshaked # None
    /\ "Pipelining" \in handshaked[1].capabilities
    /\ Len(Acks) = 2
    /\ Len(wire) = 3
    /\ nread = 4

\* ------------------------------------------------------------------- C36
\* the AgentAck frames that reached the socket
AcksOnWire == SelectSeq(wire, LAMBDA f : f.ty = "AgentAck")

\* the call in flight has been answered: its AgentAck is on the socket, or
\* an AgentDisconnect is and the connection has ended
CallAnswered ==
    /\ pc # "call"
    /\ calls # << >>
    /\ \/ /\ Len(AcksOnWire) = Len(calls)
          /\ << AcksOnWire[Len(calls)].stream_id, AcksOnWire[Len(calls)].frame_id >>
                 = calls[Len(calls)].key
       \/ /\ pc = "done"
          /\ Len(AcksOnWire) = Len(calls) - 1
          /\ wire # << >>
          /\ wire[Len(wire)].ty = "AgentDisconnect"

\* C36: a notify whose service call is in flight is eventually answered,
\* by its AgentAck or by an AgentDisconnect that ends the connection; the
\* connection does not wait on the call for ever.
C36_Answered == (pc = "call") ~> CallAnswered

\* a call has timed out and the connection has ended with
\* AgentDisconnect{Timeout}
C36_Witness ==
    /\ pc = "done"
    /\ Len(calls) = 1
    /\ results = << [tag |-> "Timeout"] >>
    /\ AcksOnWire = << >>
    /\ IsDisconnect(wire[Len(wire)], 2)

\* ------------------------------------------------------------------- C37
\* the calls that end an acker: complete, abort, and its drop
AckerEnds ==
    { i \in 1..Len(peer.log) : peer.log[i].op \in { "complete", "abort", "drop" } }

\* the actions pushed before call k, in order
PushedBefore(k) ==
    LET pushes == SelectSeq(SubSeq(peer.log, 1, k - 1), LAMBDA e : e.op = "push")
    IN  [i \in 1..Len(pushes) |-> pushes[i].arg]

\* the ack the acker owes at call k: the ids it was created with, the
\* actions pushed before k, aborted iff call k is abort
AckOwed(k) ==
    [ack(peer.stream_id, peer.frame_id, PushedBefore(k))
        EXCEPT !.aborted = (peer.log[k].op = "abort")]

\* C37: an acker sends exactly one AgentAck: the first complete, abort or
\* drop sends the ack with the ids given at creation, the actions pushed up
\* to then in order, and aborted only for abort; later complete and abort
\* calls return Closed and send nothing; a set_var or unset_var after that
\* changes nothing.  If the receiver was dropped before the first of them,
\* nothing can be delivered and that call returns Closed.
C37_OneAck ==
    IF AckerEnds = {}
    THEN /\ peer.a.chan.value = << >>
         /\ peer.a.acker = Some(ack(peer.stream_id, peer.frame_id,
                                  PushedBefore(Len(peer.log) + 1)))
    ELSE LET k == CHOOSE i \in AckerEnds : \A j \in AckerEnds : i <= j
             alive == \A i \in 1..(k - 1) : peer.log[i].op # "receiver dropped"
         IN  /\ peer.a.acker = None
             /\ alive => /\ peer.a.chan.value = << AckOwed(k) >>
                         /\ peer.log[k].ret = OkResult
             /\ ~alive => /\ peer.a.chan.value = << >>
                          /\ peer.log[k].ret = ErrResult([tag |-> "Closed"])
             /\ \A i \in AckerEnds \ { k } :
                  peer.log[i].ret = ErrResult([tag |-> "Closed"])

\* set_var, abort, complete, unset_var, then the drop: the receiver holds
\* the one aborted ack with the first action only
C37_Witness ==
    /\ peer.dropped
    /\ Len(peer.log) = 5
    /\ << peer.log[1].op, peer.log[2].op, peer.log[3].op, peer.log[4].op >>
           = << "push", "abort", "complete", "push" >>
    /\ Len(peer.a.chan.value) = 1
    /\ peer.a.chan.value[1].aborted
    /\ peer.a.chan.value[1].actions = << peer.log[1].arg >>

\* ------------------------------------------------------------------- C38
\* the notify before the i-th with the same key, 0 if there is none
PrevSameKey(i) ==
    LET same == { j \in 1..(i - 1) :
                    /\ peer.log[j].notify.stream_id = peer.log[i].notify.stream_id
                    /\ peer.log[j].notify.frame_id = peer.log[i].notify.frame_id }
    IN  IF same = {} THEN 0 ELSE CHOOSE j \in same : \A k \in same : k <= j

\* the i-th notify starts a run: the first of its key, or the one after a
\* non-fragmented frame of its key
StartsRun(i) == PrevSameKey(i) = 0 \/ ~peer.log[PrevSameKey(i)].notify.fragmented

RECURSIVE RunOf(_)
\* the run the i-th notify belongs to, numbered in order of their first frame
RunOf(i) ==
    IF StartsRun(i)
    THEN Cardinality({ j \in 1..i : StartsRun(j) })
    ELSE RunOf(PrevSameKey(i))

RECURSIVE RunMessages(_, _)
\* the messages of the frames of run r among the first i notifies, in order
RunMessages(r, i) ==
    IF i = 0 THEN << >>
    ELSE RunMessages(r, i - 1)
             \o (IF RunOf(i) = r THEN peer.log[i].notify.messages ELSE << >>)

\* the last frame of run r
LastOfRun(r) ==
    LET frames == { i \in 1..Len(peer.log) : RunOf(i) = r }
    IN  CHOOSE i \in frames : \A j \in frames : j <= i

\* the processor and every stream it was handed are alive
AllListening ==
    /\ peer.d.processor
    /\ \A n \in 1..Len(peer.d.channels) : peer.d.channels[n].alive

\* C38: the processor is handed one (acker, stream) pair per run of frames
\* with one key, made by the run's first frame, which alone returns
\* Some(receiver); the stream carries the messages of the run's frames in
\* arrival order and ends after them once the run's non-fragmented frame
\* came; a key is in the receiving map iff its last frame was fragmented.
C38_Runs ==
    AllListening =>
      LET log == peer.log
          runs == { RunOf(i) : i \in 1..Len(log) }
      IN  /\ Len(peer.d.processing) = Cardinality(runs)
          /\ Len(peer.d.channels) = Cardinality(runs)
          /\ \A i \in 1..Len(log) :
               /\ StartsRun(i) =>
                    /\ log[i].ret = [tag |-> "Ok", acked |-> Some(RunOf(i))]
                    /\ peer.d.processing[RunOf(i)] =
                         [acker |-> Acker_new(log[i].notify.stream_id,
                                              log[i].notify.frame_id),
                          messages |-> RunOf(i)]
               /\ ~StartsRun(i) => log[i].ret = [tag |-> "Ok", acked |-> None]
          /\ \A r \in runs :
               LET ch == peer.d.channels[r]
                   open == log[LastOfRun(r)].notify.fragmented
                   after == Messages_poll_next([ch EXCEPT !.queue = << >>])
               IN  /\ ch.queue = RunMessages(r, Len(log))
                   /\ open => after = [poll |-> "Pending"]
                   /\ ~open => after = [poll |-> "Ready", item |-> None]
          /\ \A k \in DispatchKeys :
               LET of == { i \in 1..Len(log) :
                             << log[i].notify.stream_id, log[i].notify.frame_id >> = k }
               IN  k \in DOMAIN peer.d.receiving <=>
                     /\ of # {}
                     /\ \E i \in of : /\ \A j \in of : j <= i
                                      /\ log[i].notify.fragmented
                                      /\ peer.d.receiving[k] = RunOf(i)

\* two fragments and the closing frame of one key, each with messages: one
\* pair, its stream holding the messages of the three frames and ended
C38_Witness ==
    /\ AllListening
    /\ Len(peer.log) = 3
    /\ \A i \in 1..3 : /\ RunOf(i) = 1
                       /\ Len(peer.log[i].notify.messages) > 0
    /\ ~peer.log[3].notify.fragmented
    /\ Len(peer.d.processing) = 1
    /\ Len(peer.d.channels[1].queue) >= 3
    /\ peer.d.receiving = << >>

C40_WithinMaxFrameSize ==
    peer.written # None =>
      /\ peer.written[1].len = Len(peer.written[1].body)
      /\ peer.written[1].len <= peer.max_frame_size

====
